---- MODULE Spec2Model ----
(***************************************************************************)
(* The relay hub of the MiqBOT bridge server (mvp1_bridge_server) and the  *)
(* sessions that drive it: game-client sessions that attach as the primary *)
(* game sender, and orchestrator sessions that hold an orchestrator slot   *)
(* and issue action requests.  Every lock acquisition, atomic access and   *)
(* channel send of relay.rs is one step, so that the interleavings of the  *)
(* tokio tasks (one per session) are the behaviours of Spec.               *)
(***************************************************************************)
EXTENDS Integers, Sequences, FiniteSets, TLC

\* relay_cfg.action_queue_size: capacity of the primary's action channel and
\* of every orchestrator's reply channel.
ActionQueueSize == 1
\* ActionReq frames the orchestrator peers send in one behaviour.
MaxActionReqs == 2
\* ActionAck / ActionRes frames of the game peers that find a pending entry
\* in one behaviour (a frame that finds none changes nothing).
MaxReplies == 2

\* The connections; each runs run_ws_session once.  A behaviour has the
\* connections of one of the Scenarios, the others stay absent.
GameSessions == {"g1", "g2"}
OrchSessions == {"o1", "o2"}
Sessions == GameSessions \cup OrchSessions
Scenarios == {{"g1", "g2", "o1"}, {"g1", "o1", "o2"}}
ConcurrentScenario == {"g1", "o1", "o2"}

\* Strings the code trims or compares are sequences of characters.
PrimaryGameAgentId == <<"p">>
AgentIds == {PrimaryGameAgentId, <<"x">>}
RequestIds == {<<" ">>, <<"a">>}
TargetAgentIds == {<<" ">>, <<"x">>}

NoSender == "none"

IsWhitespace(c) == c \in {" ", "\t", "\n"}

RECURSIVE TrimStart(_)
TrimStart(s) ==
    IF s = << >> THEN s
    ELSE IF IsWhitespace(Head(s)) THEN TrimStart(Tail(s)) ELSE s

RECURSIVE TrimEnd(_)
TrimEnd(s) ==
    IF s = << >> THEN s
    ELSE IF IsWhitespace(s[Len(s)]) THEN TrimEnd(SubSeq(s, 1, Len(s) - 1)) ELSE s

\* str::trim
Trim(s) == TrimEnd(TrimStart(s))

\* s.trim().is_empty()
IsBlank(s) == Trim(s) = << >>

VARIABLES
    primary_game_sender,          \* RelayHub.primary_game_sender: NoSender or the session owning the receiver
    pending_actions,              \* RelayHub.pending_actions: request_id -> orchestrator session owning the reply receiver
    orchestrator_count,           \* RelayHub.orchestrator_count
    allow_orchestrator_subscribe, \* relay_cfg.allow_orchestrator_subscribe
    max_orchestrator_subscribers, \* relay_cfg.max_orchestrator_subscribers
    action_queue_size,            \* relay_cfg.action_queue_size: the capacity of the action and reply channels
    traced,                       \* the run keeps the histories received, entered, delivered and nack_out
    action_chan,                  \* per game session: the mpsc channel of ActionRequest it created
    action_rx_alive,              \* per game session: its action_rx has not been dropped
    reply_chan,                   \* per orchestrator session: its mpsc channel of ActionRelayFrame
    reply_rx_alive,               \* per orchestrator session: its action_reply_rx has not been dropped
    pc,                           \* per session: where its task stands
    is_primary_game,              \* SessionState.is_primary_game
    agent_id,                     \* SessionState.agent_id of a game session (<< >> before the Hello)
    has_slot,                     \* per orchestrator session: it owns a live OrchestratorSlot
    current,                      \* per orchestrator session: `current` of acquire_orchestrator_slot
    enq,                          \* per orchestrator session: its last enqueue_action call (req, primary_sender, result)
    route,                        \* per game session: frame and reply_tx of its route_action_* call
    drained,                      \* per game session: what fail_all_pending still has to send
    handshake,                    \* per session: the handshake reply its peer was sent
    relayed,                      \* per orchestrator session: the ActionRelayFrames forwarded to its peer
    reply_hist,                   \* per orchestrator session: every frame ever put into its reply channel
    routed,                       \* the ActionAck / ActionRes frames of game peers that found a pending entry
    n_inserted,                   \* per orchestrator session and request_id: inserts into pending_actions
    n_cancelled,                  \* per orchestrator session and request_id: entries drained by fail_all_pending
    removed_by,                   \* per request_id: the operations that ever removed an entry of it
    received,                     \* per orchestrator session: the ActionReq frames its peer sent, in order
    entered,                      \* per game session: the requests that entered its action channel, with their senders, in order
    delivered,                    \* per game session: the ActionReq frames sent to its peer, in order
    nack_out,                     \* per orchestrator session: the local ActionAcks sent to its peer, in order
    n_reqs,                       \* ActionReq frames received so far
    n_replies                     \* ActionAck / ActionRes frames routed so far

hub_vars == <<primary_game_sender, pending_actions, orchestrator_count>>
game_vars == <<action_chan, action_rx_alive, is_primary_game, agent_id, route, drained>>
orch_vars == <<reply_chan, reply_rx_alive, has_slot, current, enq, relayed>>
ghost_vars == <<reply_hist, routed, n_inserted, n_cancelled, removed_by>>
budget_vars == <<n_reqs, n_replies>>

cfg_vars == <<allow_orchestrator_subscribe, max_orchestrator_subscribers, action_queue_size,
              traced>>
trace_vars == <<received, entered, delivered, nack_out>>

\* The telemetry path: the rate limiter of publish_telemetry, the watch
\* channel, and the watch::Receiver of each orchestrator session.
VARIABLES
    clock,                        \* the monotonic clock (Instant), in ticks of ClockTickMs
    T0,                           \* relay.rs mono_ms: the OnceLock T0, Unset until the first call
    last_relay_mono_ms,           \* RelayHub.last_relay_mono_ms
    min_relay_interval_ms,        \* relay_cfg.min_relay_interval_ms
    telemetry_tx,                 \* the watch channel: the value it holds and its version
    n_telemetry,                  \* Telemetry frames received from game peers so far
    broadcast,                    \* the values that ever overwrote the watch channel's slot, in order
    overwrote_at,                 \* the clock when the slot was last overwritten, Unset if never
    published_at,                 \* the clock of every publish_telemetry call so far, in order
    telemetry_rx,                 \* per orchestrator session: the version its watch::Receiver has seen
    tpc,                          \* per orchestrator session: where its telemetry branch stands
    forwarded,                    \* per orchestrator session: the Telemetry frames sent to its peer
    subscribed_at                 \* per orchestrator session: Len(broadcast) when it subscribed

limiter_vars == <<clock, T0, last_relay_mono_ms, min_relay_interval_ms>>
watch_vars == <<telemetry_tx, n_telemetry, broadcast, overwrote_at, published_at>>
subscriber_vars == <<telemetry_rx, tpc, forwarded, subscribed_at>>
telemetry_vars == <<limiter_vars, watch_vars, subscriber_vars>>

\* The wire side of a session: what run_ws_session keeps in SessionState and
\* what it has received from and sent to its peer.
VARIABLES
    wpc,                          \* per wire session: where run_ws_session stands
    st,                           \* per wire session: its SessionState
    hello_in,                     \* per wire session: the first frame its peer sent
    hs_verdict,                   \* per wire session: how its handshake ended
    hs_reply,                     \* per wire session: the payload its handshake handed to send_envelope
    sent_last,                    \* per wire session: the last envelope that reached its peer
    n_sent,                       \* per wire session: the envelopes that reached its peer so far
    peer_seqs,                    \* per wire session: the seq of every envelope decoded from its peer
    w_slot,                       \* per wire session: it owns a live OrchestratorSlot
    n_wire                        \* frames handled after the handshakes so far

wire_vars == <<wpc, st, hello_in, hs_verdict, hs_reply, sent_last, n_sent, peer_seqs,
               w_slot, n_wire>>

\* The orchestrator process: the fields of its StateActor and what its
\* SpeechQueue was last asked.
VARIABLES
    queue,                        \* StateActor.queue: the SpeechQueue (p0, p1, p2 and their capacities)
    n_jobs,                       \* SpeechJobs built so far; a job's job_id is its number
    speech_call,                  \* the last SpeechQueue method called on its own: its arguments and what it returned
    ledger,                       \* StateActor.ledger: the ActionLedger (inflight: request_id -> InflightAction)
    ledger_call,                  \* the last ActionLedger method called on its own: its arguments and what it returned
    ledger_hist,                  \* per request_id: the arguments of its last on_sent and what was called for it since
    actor_cfg,                    \* StateActor.cfg: the OrchestratorConfig
    actor_pc,                     \* where StateActor::run stands: "running", "closed" (Ok) or "failed" (Err)
    actor_ms,                     \* the last reading of StateActor::now_ms (t0.elapsed)
    last_spoken_ms,               \* StateActor.last_spoken_ms
    last_line,                    \* StateActor.last_line
    last_line_ms,                 \* StateActor.last_line_ms
    n_actions,                    \* ActionRequests built so far; a request's request_id is its number
    n_handled,                    \* handlers StateActor::run has run so far
    actor_call,                   \* the last handler StateActor::run ran: its inputs and what it did
    bridge                        \* StateActor.bridge: the BridgeClient (seq, last_peer_seq) and where its connect stands

queue_vars == <<queue, n_jobs, speech_call>>
ledger_vars == <<ledger, ledger_call, ledger_hist>>
state_vars == <<actor_cfg, actor_pc, actor_ms, last_spoken_ms, last_line, last_line_ms, n_actions,
                n_handled, actor_call, bridge>>
actor_vars == <<queue_vars, ledger_vars, state_vars>>

vars == <<hub_vars, cfg_vars, game_vars, orch_vars, pc, handshake,
          ghost_vars, budget_vars, telemetry_vars, wire_vars, trace_vars, actor_vars>>

----
\* Frames

DisconnectReason == "primary game client disconnected"

ActionAck(rid, accepted, reason) ==
    [type |-> "ActionAck", request_id |-> rid, accepted |-> accepted, reason |-> reason]

ActionResult(rid, status, detail) ==
    [type |-> "ActionRes", request_id |-> rid, status |-> status, detail |-> detail]

ActionRequest(rid, target) ==
    [type |-> "ActionReq", request_id |-> rid, target_agent_id |-> target]

\* An ActionRequest with its type field (pb::ActionType).
TypedActionRequest(rid, target, action_type) ==
    [type |-> "ActionReq", request_id |-> rid, target_agent_id |-> target,
     action_type |-> action_type]

HandshakeOk == [type |-> "HandshakeOk"]
HandshakeReject(reason) == [type |-> "HandshakeReject", reason |-> reason]
NoFrame == [type |-> "none"]

NoCall == [type |-> "none"]

EmptyPending == [k \in {} |-> NoSender]
PendingInsert(p, rid, tx) ==
    [k \in DOMAIN p \cup {rid} |-> IF k = rid THEN tx ELSE p[k]]
PendingRemove(p, rid) == [k \in DOMAIN p \ {rid} |-> p[k]]

\* A history with one more entry, in the runs that keep it.
Traced(h, x) == IF traced THEN Append(h, x) ELSE h

\* removed_by after operation op has removed the entries of rids.
Removed(rids, op) ==
    [r \in RequestIds |-> IF r \in rids THEN removed_by[r] \cup {op} ELSE removed_by[r]]

----
\* RelayHub::new and the accepted connections, none of which has sent its
\* Hello yet, under a relay configuration.
StartHub(present, allow, max, size, trace) ==
    /\ primary_game_sender = NoSender
    /\ pending_actions = EmptyPending
    /\ orchestrator_count = 0
    /\ allow_orchestrator_subscribe = allow
    /\ max_orchestrator_subscribers = max
    /\ action_queue_size = size
    /\ traced = trace
    /\ action_chan = [g \in GameSessions |-> << >>]
    /\ action_rx_alive = [g \in GameSessions |-> FALSE]
    /\ reply_chan = [o \in OrchSessions |-> << >>]
    /\ reply_rx_alive = [o \in OrchSessions |-> FALSE]
    /\ pc = [s \in Sessions |-> IF s \in present THEN "hello" ELSE "absent"]
    /\ is_primary_game = [g \in GameSessions |-> FALSE]
    /\ agent_id = [g \in GameSessions |-> << >>]
    /\ has_slot = [o \in OrchSessions |-> FALSE]
    /\ current = [o \in OrchSessions |-> 0]
    /\ enq = [o \in OrchSessions |-> NoCall]
    /\ route = [g \in GameSessions |-> NoCall]
    /\ drained = [g \in GameSessions |-> << >>]
    /\ handshake = [s \in Sessions |-> NoFrame]
    /\ relayed = [o \in OrchSessions |-> << >>]
    /\ reply_hist = [o \in OrchSessions |-> << >>]
    /\ routed = << >>
    /\ n_inserted = [o \in OrchSessions |-> [r \in RequestIds |-> 0]]
    /\ n_cancelled = [o \in OrchSessions |-> [r \in RequestIds |-> 0]]
    /\ removed_by = [r \in RequestIds |-> {}]
    /\ n_reqs = 0
    /\ n_replies = 0
    /\ received = [o \in OrchSessions |-> << >>]
    /\ entered = [g \in GameSessions |-> << >>]
    /\ delivered = [g \in GameSessions |-> << >>]
    /\ nack_out = [o \in OrchSessions |-> << >>]

\* The request ids of the orchestrator: a request_id (a v4 UUID) is the number
\* of the request it was generated for.
MaxActionIds == 4
ActionIds == 1..MaxActionIds

\* ActionLedger::new
NewLedger == [inflight |-> [request_id \in {} |-> NoCall]]

\* A request_id no on_sent was called for.
NotSent == [phase |-> "none"]

\* SpeechQueue::new
NewSpeechQueue(max_p0, max_p1, max_p2) ==
    [p0 |-> << >>, p1 |-> << >>, p2 |-> << >>,
     max_p0 |-> max_p0, max_p1 |-> max_p1, max_p2 |-> max_p2]

\* Option<T>
None == [some |-> FALSE]
Some(x) == [some |-> TRUE, value |-> x]

\* An OrchestratorConfig that validate accepts: the queue capacities, the action
\* timeouts, and the speech timings.
OrchestratorConfig(max_p0, max_p1, max_p2, ack_timeout_ms, result_timeout_ms) ==
    [primary_game_agent_id |-> PrimaryGameAgentId,
     queue_max_p0 |-> max_p0, queue_max_p1 |-> max_p1, queue_max_p2 |-> max_p2,
     action_ack_timeout_ms |-> ack_timeout_ms, action_result_timeout_ms |-> result_timeout_ms,
     chat_deadline_ms |-> 1, filler_deadline_ms |-> 1,
     silence_gap_ms |-> 2, duplicate_cooldown_ms |-> 1]

\* BridgeClient::connect: the Self it builds before it sends its Hello.
\* waited_ms is the time since wait_for_handshake armed its timer, n_msgs
\* counts what ws.next() yielded, sent is the payload last handed to
\* send_envelope and result is what connect returned.
NewBridgeClient ==
    [pc |-> "send_hello", seq |-> 0, last_peer_seq |-> 0, waited_ms |-> 0, n_msgs |-> 0,
     sent |-> NoFrame, result |-> "none"]

\* A BridgeClient whose connect returned Ok after one HelloAck.
ConnectedBridgeClient ==
    [NewBridgeClient EXCEPT !.pc = "connected", !.seq = 1, !.last_peer_seq = 1, !.n_msgs = 1,
                            !.result = "Ok"]

\* StateActor::new: the fields it sets itself.
StateActorFields(cfg) ==
    /\ queue = NewSpeechQueue(cfg.queue_max_p0, cfg.queue_max_p1, cfg.queue_max_p2)
    /\ n_jobs = 0
    /\ speech_call = NoCall
    /\ ledger = NewLedger
    /\ ledger_call = NoCall
    /\ ledger_hist = [request_id \in ActionIds |-> NotSent]
    /\ actor_cfg = cfg
    /\ actor_pc = "running"
    /\ actor_ms = 0
    /\ last_spoken_ms = 0
    /\ last_line = None
    /\ last_line_ms = 0
    /\ n_actions = 0
    /\ n_handled = 0
    /\ actor_call = NoCall

\* StateActor::new, given a BridgeClient whose connect returned Ok.
StateActorNew(cfg) ==
    /\ bridge = ConnectedBridgeClient
    /\ StateActorFields(cfg)

\* StateActor::new under a configuration with the three queue capacities.
ActorStart(max_p0, max_p1, max_p2) ==
    StateActorNew(OrchestratorConfig(max_p0, max_p1, max_p2, 1, 2))

\* The hub with channels of ActionQueueSize, its action path not traced.
Start(present, allow, max) == StartHub(present, allow, max, ActionQueueSize, FALSE)

\* The OnceLock of mono_ms before its first call, and a slot never overwritten.
Unset == -1

\* The value watch::channel(None) starts with.
NoTelemetry == 0

\* RelayHub::new, the telemetry path, with relay_cfg.min_relay_interval_ms.
TelemetryStart(interval) ==
    /\ clock = 0
    /\ T0 = Unset
    /\ last_relay_mono_ms = 0
    /\ min_relay_interval_ms = interval
    /\ telemetry_tx = [value |-> NoTelemetry, version |-> 0]
    /\ n_telemetry = 0
    /\ broadcast = << >>
    /\ overwrote_at = Unset
    /\ published_at = << >>
    /\ telemetry_rx = [o \in OrchSessions |-> 0]
    /\ tpc = [o \in OrchSessions |-> "absent"]
    /\ forwarded = [o \in OrchSessions |-> << >>]
    /\ subscribed_at = [o \in OrchSessions |-> 0]

\* The wire sessions; those of `present` are connected.
WireSessions == {"w1", "w2", "w3"}

\* Uuid::new_v4().to_string(): one string per session, unknown to the peers.
SessionId(s) == <<"sid", s>>

\* SessionState::new
NewSessionState(s) ==
    [session_id |-> SessionId(s), server_seq |-> 0, last_peer_seq |-> 0,
     agent_id |-> << >>, peer_role |-> "unspecified", peer_caps |-> << >>,
     is_primary_game |-> FALSE]

\* accept_async_with_config and SessionState::new for the sessions present.
WireStart(present) ==
    /\ wpc = [s \in WireSessions |-> IF s \in present THEN "hello" ELSE "absent"]
    /\ st = [s \in WireSessions |-> NewSessionState(s)]
    /\ hello_in = [s \in WireSessions |-> NoFrame]
    /\ hs_verdict = [s \in WireSessions |-> "none"]
    /\ hs_reply = [s \in WireSessions |-> NoFrame]
    /\ sent_last = [s \in WireSessions |-> NoFrame]
    /\ n_sent = [s \in WireSessions |-> 0]
    /\ peer_seqs = [s \in WireSessions |-> {}]
    /\ w_slot = [s \in WireSessions |-> FALSE]
    /\ n_wire = 0

\* One orchestrator subscriber at a time.
Init ==
    /\ \E present \in Scenarios, allow \in BOOLEAN : Start(present, allow, 1)
    /\ TelemetryStart(0)
    /\ WireStart({})
    /\ ActorStart(1, 1, 1)

\* Two orchestrator subscribers side by side.
InitConcurrent ==
    /\ Start(ConcurrentScenario, TRUE, 2)
    /\ TelemetryStart(0)
    /\ WireStart({})
    /\ ActorStart(1, 1, 1)

----
\* Sessions are named in the order in which their Hello arrives.
GameOrder == <<"g1", "g2">>
OrchOrder == <<"o1", "o2">>

InArrivalOrder(s, order) ==
    \A i, j \in 1..Len(order) : (i < j /\ order[j] = s) => pc[order[i]] # "hello"

\* The handshake replies after send_handshake_ok / send_handshake_reject of
\* session s, whose send did or did not reach the peer.
HandshakeReply(s, frame, ok) ==
    IF ok THEN [handshake EXCEPT ![s] = frame] ELSE handshake

----
\* Game-client sessions (run_ws_session, role game_client)

\* attach_primary_game_sender without its test of an occupied slot.
AttachOverOccupiedSlot(agent) ==
    IF agent # PrimaryGameAgentId THEN "non-primary game agent cannot attach action sender"
    ELSE "ok"

\* RelayHub::attach_primary_game_sender: what the call answers.
AttachPrimaryGameSender(agent) ==
    IF agent # PrimaryGameAgentId THEN "non-primary game agent cannot attach action sender"
    ELSE IF primary_game_sender # NoSender THEN "primary game sender already attached"
    ELSE "ok"

\* The Hello of a game client arrives: role dispatch, the attach of a client
\* with the primary agent id, the reject reply when the attach fails and
\* send_handshake_ok when it did not.  When send_handshake_ok fails, the `?`
\* of ws.rs:194 returns before detach_primary_game_sender is reached, and the
\* session's action_rx is dropped with the function's locals.
GameHello(g, agent, ok) ==
    /\ pc[g] = "hello"
    /\ InArrivalOrder(g, GameOrder)
    /\ agent_id' = [agent_id EXCEPT ![g] = agent]
    /\ IF agent = PrimaryGameAgentId
       THEN IF AttachPrimaryGameSender(agent) = "ok"
            THEN /\ primary_game_sender' = g
                 /\ is_primary_game' = [is_primary_game EXCEPT ![g] = TRUE]
                 /\ action_rx_alive' = [action_rx_alive EXCEPT ![g] = ok]
                 /\ handshake' = HandshakeReply(g, HandshakeOk, ok)
                 /\ pc' = [pc EXCEPT ![g] = IF ok THEN "loop" ELSE "done"]
            ELSE /\ handshake' = HandshakeReply(g,
                        HandshakeReject("primary game sender is unavailable"), ok)
                 /\ pc' = [pc EXCEPT ![g] = "done"]
                 /\ UNCHANGED <<primary_game_sender, is_primary_game, action_rx_alive>>
       ELSE /\ handshake' = HandshakeReply(g, HandshakeOk, ok)
            /\ pc' = [pc EXCEPT ![g] = IF ok THEN "loop" ELSE "done"]
            /\ UNCHANGED <<primary_game_sender, is_primary_game, action_rx_alive>>
    /\ UNCHANGED <<pending_actions, orchestrator_count, cfg_vars, telemetry_vars, wire_vars, actor_vars, trace_vars,
                   action_chan, route, drained, orch_vars, ghost_vars, budget_vars>>

\* run_game_session_loop has returned (ws.rs:195-198): a primary session
\* takes the slot lock of detach_primary_game_sender and clears the slot,
\* any other game session is over.
LeaveGameLoop(g) ==
    IF is_primary_game[g]
    THEN /\ primary_game_sender' = NoSender
         /\ pc' = [pc EXCEPT ![g] = "fail_all_pending"]
    ELSE /\ pc' = [pc EXCEPT ![g] = "done"]
         /\ UNCHANGED primary_game_sender

\* The peer closes, the stream ends or a read fails.
GameRecvClose(g) ==
    /\ pc[g] = "loop"
    /\ LeaveGameLoop(g)
    /\ UNCHANGED <<pending_actions, orchestrator_count, cfg_vars, telemetry_vars, wire_vars, actor_vars, trace_vars,
                   game_vars, orch_vars, handshake, ghost_vars, budget_vars>>

\* A receiver that yields the request sent last.
ActionRecvNewest(chan) == [req |-> chan[Len(chan)], rest |-> SubSeq(chan, 1, Len(chan) - 1)]

\* action_rx.recv(): the request the receiver yields and what stays in the
\* channel.
ActionRecv(chan) == [req |-> Head(chan), rest |-> Tail(chan)]

\* action_rx.recv() yields a request and the session forwards it to its peer;
\* a failed send ends the loop with an error.
GameForwardAction(g, ok) ==
    /\ pc[g] = "loop"
    /\ action_chan[g] # << >>
    /\ action_chan' = [action_chan EXCEPT ![g] = ActionRecv(@).rest]
    /\ delivered' = [delivered EXCEPT ![g] =
                        IF ok THEN Traced(@, ActionRecv(action_chan[g]).req) ELSE @]
    /\ IF ok THEN UNCHANGED <<pc, primary_game_sender>> ELSE LeaveGameLoop(g)
    /\ UNCHANGED <<pending_actions, orchestrator_count, cfg_vars, telemetry_vars, wire_vars, actor_vars,
                   received, entered, nack_out, action_rx_alive, is_primary_game, agent_id, route, drained,
                   orch_vars, handshake, ghost_vars, budget_vars>>

\* route_action_ack that removes the entry whatever the ack says.
RouteAckAlwaysRemoves(ack) == PendingRemove(pending_actions, ack.request_id)

\* route_action_ack that leaves the entry of a rejected request in place.
RouteAckKeepsRejected(ack) == pending_actions

\* RelayHub::route_action_ack, the locked part: pending_actions after it.  The
\* entry is kept for an accepting ack and removed for a rejecting one.
RouteAckPending(ack) ==
    IF ack.accepted THEN pending_actions
    ELSE PendingRemove(pending_actions, ack.request_id)

\* An ActionAck frame arrives from the peer (handle_ws_message): only the
\* primary session routes it, and a frame that finds no entry changes nothing.
GameRecvActionAck(g, rid, accepted) ==
    /\ pc[g] = "loop"
    /\ n_replies < MaxReplies
    /\ LET ack == ActionAck(rid, accepted, "") IN
       IF is_primary_game[g] /\ rid \in DOMAIN pending_actions
       THEN /\ route' = [route EXCEPT ![g] = [frame |-> ack, reply_tx |-> pending_actions[rid]]]
            /\ pending_actions' = RouteAckPending(ack)
            /\ removed_by' = Removed({rid} \ DOMAIN pending_actions', "route_action_ack")
            /\ routed' = Append(routed, ack)
            /\ pc' = [pc EXCEPT ![g] = "route_ack_send"]
            /\ n_replies' = n_replies + 1
       ELSE UNCHANGED <<route, pending_actions, removed_by, routed, pc, n_replies>>
    /\ UNCHANGED <<primary_game_sender, orchestrator_count, cfg_vars, telemetry_vars, wire_vars, actor_vars, trace_vars,
                   action_chan, action_rx_alive, is_primary_game, agent_id, drained,
                   orch_vars, handshake, reply_hist, n_inserted, n_cancelled, n_reqs>>

\* reply_tx.send(frame).await on a channel whose receiver lives: completes
\* once the channel has room.
ReplySend(o, frame) ==
    /\ reply_rx_alive[o]
    /\ Len(reply_chan[o]) < action_queue_size
    /\ reply_chan' = [reply_chan EXCEPT ![o] = Append(@, frame)]
    /\ reply_hist' = [reply_hist EXCEPT ![o] = Append(@, frame)]

\* route_action_ack whose failed send leaves the entry in place.
RouteAckClosedKeepsEntry(rid) == pending_actions

\* route_action_ack after reply_tx.send(..) returned an error: the entry
\* stored under the request id is removed.
RouteAckClosedPending(rid) == PendingRemove(pending_actions, rid)

\* route_action_ack, the send: a closed reply channel removes the entry.
RouteAckSend(g) ==
    /\ pc[g] = "route_ack_send"
    /\ \/ /\ ReplySend(route[g].reply_tx, route[g].frame)
          /\ UNCHANGED <<pending_actions, removed_by>>
       \/ /\ ~reply_rx_alive[route[g].reply_tx]
          /\ pending_actions' = RouteAckClosedPending(route[g].frame.request_id)
          /\ removed_by' = Removed({route[g].frame.request_id} \cap DOMAIN pending_actions,
                                    "reply channel closed")
          /\ UNCHANGED <<reply_chan, reply_hist>>
    /\ route' = [route EXCEPT ![g] = NoCall]
    /\ pc' = [pc EXCEPT ![g] = "loop"]
    /\ UNCHANGED <<primary_game_sender, orchestrator_count, cfg_vars, telemetry_vars, wire_vars, actor_vars, trace_vars,
                   action_chan, action_rx_alive, is_primary_game, agent_id, drained,
                   reply_rx_alive, has_slot, current, enq, relayed, handshake,
                   routed, n_inserted, n_cancelled, budget_vars>>

\* route_action_result that looks the entry up without removing it.
RouteResultKeepsEntry(rid) == pending_actions

\* RelayHub::route_action_result, the locked part: pending.remove(request_id).
RouteResultPending(rid) == PendingRemove(pending_actions, rid)

\* An ActionRes frame arrives from the peer: the primary session runs
\* RelayHub::route_action_result, whose locked part removes the entry.
GameRecvActionRes(g, rid) ==
    /\ pc[g] = "loop"
    /\ n_replies < MaxReplies
    /\ LET res == ActionResult(rid, "ok", "") IN
       IF is_primary_game[g] /\ rid \in DOMAIN pending_actions
       THEN /\ route' = [route EXCEPT ![g] = [frame |-> res, reply_tx |-> pending_actions[rid]]]
            /\ pending_actions' = RouteResultPending(rid)
            /\ removed_by' = Removed({rid} \ DOMAIN pending_actions', "route_action_result")
            /\ routed' = Append(routed, res)
            /\ pc' = [pc EXCEPT ![g] = "route_result_send"]
            /\ n_replies' = n_replies + 1
       ELSE UNCHANGED <<route, pending_actions, removed_by, routed, pc, n_replies>>
    /\ UNCHANGED <<primary_game_sender, orchestrator_count, cfg_vars, telemetry_vars, wire_vars, actor_vars, trace_vars,
                   action_chan, action_rx_alive, is_primary_game, agent_id, drained,
                   orch_vars, handshake, reply_hist, n_inserted, n_cancelled, n_reqs>>

\* route_action_result, the send: its error is dropped (`let _ =`).
RouteResultSend(g) ==
    /\ pc[g] = "route_result_send"
    /\ \/ ReplySend(route[g].reply_tx, route[g].frame)
       \/ /\ ~reply_rx_alive[route[g].reply_tx]
          /\ UNCHANGED <<reply_chan, reply_hist>>
    /\ route' = [route EXCEPT ![g] = NoCall]
    /\ pc' = [pc EXCEPT ![g] = "loop"]
    /\ UNCHANGED <<hub_vars, cfg_vars, telemetry_vars, wire_vars, actor_vars, trace_vars,
                   action_chan, action_rx_alive, is_primary_game, agent_id, drained,
                   reply_rx_alive, has_slot, current, enq, relayed, handshake,
                   routed, n_inserted, n_cancelled, removed_by, budget_vars>>

\* The orders in which HashMap::drain may yield the keys of S.
Orders(S) ==
    {q \in [1..Cardinality(S) -> S] : \A i, j \in 1..Cardinality(S) : i # j => q[i] # q[j]}

\* fail_all_pending that sends the result before the ack.
FailFramesResultFirst(rid, reply_tx) ==
    << [frame |-> ActionResult(rid, "timeout", DisconnectReason), reply_tx |-> reply_tx],
       [frame |-> ActionAck(rid, FALSE, DisconnectReason), reply_tx |-> reply_tx] >>

\* The two frames fail_all_pending sends for one drained entry, in the order
\* it sends them.
FailFrames(rid, reply_tx) ==
    << [frame |-> ActionAck(rid, FALSE, DisconnectReason), reply_tx |-> reply_tx],
       [frame |-> ActionResult(rid, "timeout", DisconnectReason), reply_tx |-> reply_tx] >>

RECURSIVE FailWork(_, _)
FailWork(order, p) ==
    IF order = << >> THEN << >>
    ELSE FailFrames(Head(order), p[Head(order)]) \o FailWork(Tail(order), p)

\* fail_all_pending, the locked part: drain pending_actions.
FailAllPendingDrain(g) ==
    /\ pc[g] = "fail_all_pending"
    /\ \E order \in Orders(DOMAIN pending_actions) :
          drained' = [drained EXCEPT ![g] = FailWork(order, pending_actions)]
    /\ n_cancelled' = [o \in OrchSessions |-> [r \in RequestIds |->
          IF r \in DOMAIN pending_actions /\ pending_actions[r] = o
          THEN n_cancelled[o][r] + 1 ELSE n_cancelled[o][r]]]
    /\ removed_by' = Removed(DOMAIN pending_actions, "fail_all_pending")
    /\ pending_actions' = EmptyPending
    /\ pc' = [pc EXCEPT ![g] = "fail_all_send"]
    /\ UNCHANGED <<primary_game_sender, orchestrator_count, cfg_vars, telemetry_vars, wire_vars, actor_vars, trace_vars,
                   action_chan, action_rx_alive, is_primary_game, agent_id, route,
                   orch_vars, handshake, reply_hist, routed, n_inserted,
                   budget_vars>>

\* fail_all_pending, one send of its loop; the send's error is dropped.
FailAllPendingSend(g) ==
    /\ pc[g] = "fail_all_send"
    /\ drained[g] # << >>
    /\ \/ ReplySend(Head(drained[g]).reply_tx, Head(drained[g]).frame)
       \/ /\ ~reply_rx_alive[Head(drained[g]).reply_tx]
          /\ UNCHANGED <<reply_chan, reply_hist>>
    /\ drained' = [drained EXCEPT ![g] = Tail(@)]
    /\ UNCHANGED <<hub_vars, cfg_vars, telemetry_vars, wire_vars, actor_vars, trace_vars, pc,
                   action_chan, action_rx_alive, is_primary_game, agent_id, route,
                   reply_rx_alive, has_slot, current, enq, relayed, handshake,
                   routed, n_inserted, n_cancelled, removed_by, budget_vars>>

\* detach_primary_game_sender returns and run_ws_session with it: the
\* session's action_rx is dropped, and what it still held with it.
DetachReturn(g) ==
    /\ pc[g] = "fail_all_send"
    /\ drained[g] = << >>
    /\ pc' = [pc EXCEPT ![g] = "done"]
    /\ action_rx_alive' = [action_rx_alive EXCEPT ![g] = FALSE]
    /\ action_chan' = [action_chan EXCEPT ![g] = << >>]
    /\ UNCHANGED <<hub_vars, cfg_vars, telemetry_vars, wire_vars, actor_vars, trace_vars, is_primary_game, agent_id,
                   route, drained, orch_vars, handshake, ghost_vars, budget_vars>>

----
\* Orchestrator sessions (run_ws_session, role orchestrator)

\* A slot whose drop does not give the count back.
OrchestratorSlotLeaked(count) == count

\* Drop for OrchestratorSlot: fetch_sub(1).
OrchestratorSlotDrop(count) == count - 1

\* run_ws_session of an orchestrator returns: its locals are dropped, the
\* reply receiver and the OrchestratorSlot among them.
LeaveOrchestrator(o) ==
    /\ pc' = [pc EXCEPT ![o] = "done"]
    /\ orchestrator_count' =
          IF has_slot[o] THEN OrchestratorSlotDrop(orchestrator_count) ELSE orchestrator_count
    /\ has_slot' = [has_slot EXCEPT ![o] = FALSE]
    /\ reply_rx_alive' = [reply_rx_alive EXCEPT ![o] = FALSE]
    /\ reply_chan' = [reply_chan EXCEPT ![o] = << >>]

\* The Hello of an orchestrator arrives; acquire_orchestrator_slot answers
\* NotAllowed when subscriptions are disabled and enters its loop otherwise.
OrchHello(o, ok) ==
    /\ pc[o] = "hello"
    /\ InArrivalOrder(o, OrchOrder)
    /\ IF allow_orchestrator_subscribe
       THEN /\ pc' = [pc EXCEPT ![o] = "acquire_load"]
            /\ UNCHANGED handshake
       ELSE /\ pc' = [pc EXCEPT ![o] = "done"]
            /\ handshake' = HandshakeReply(o,
                   HandshakeReject("orchestrator subscriptions are disabled"), ok)
    /\ UNCHANGED <<hub_vars, cfg_vars, telemetry_vars, wire_vars, actor_vars, trace_vars, game_vars, orch_vars,
                   ghost_vars, budget_vars>>

\* acquire_orchestrator_slot, the load of its loop and the LimitReached test.
AcquireLoad(o, ok) ==
    /\ pc[o] = "acquire_load"
    /\ current' = [current EXCEPT ![o] = orchestrator_count]
    /\ IF orchestrator_count >= max_orchestrator_subscribers
       THEN /\ pc' = [pc EXCEPT ![o] = "done"]
            /\ handshake' = HandshakeReply(o,
                   HandshakeReject("orchestrator subscription limit reached"), ok)
       ELSE /\ pc' = [pc EXCEPT ![o] = "acquire_cas"]
            /\ UNCHANGED handshake
    /\ UNCHANGED <<hub_vars, cfg_vars, telemetry_vars, wire_vars, actor_vars, trace_vars, game_vars, reply_chan,
                   reply_rx_alive, has_slot, enq, relayed, ghost_vars, budget_vars>>

\* A plain store in place of the compare_exchange: it always succeeds.
StoreWithoutCompare(cur) == TRUE

\* compare_exchange(current, current + 1) succeeds.
CompareExchangeOk(cur) == orchestrator_count = cur

\* acquire_orchestrator_slot, the compare_exchange; on success the session
\* owns a slot, subscribes and creates its reply channel.
AcquireCas(o) ==
    /\ pc[o] = "acquire_cas"
    /\ IF CompareExchangeOk(current[o])
       THEN /\ orchestrator_count' = current[o] + 1
            /\ has_slot' = [has_slot EXCEPT ![o] = TRUE]
            /\ reply_rx_alive' = [reply_rx_alive EXCEPT ![o] = TRUE]
            /\ pc' = [pc EXCEPT ![o] = "handshake"]
       ELSE /\ pc' = [pc EXCEPT ![o] = "acquire_load"]
            /\ UNCHANGED <<orchestrator_count, has_slot, reply_rx_alive>>
    /\ UNCHANGED <<primary_game_sender, pending_actions, cfg_vars, telemetry_vars, wire_vars, actor_vars, trace_vars,
                   game_vars, reply_chan, current, enq, relayed, handshake,
                   ghost_vars, budget_vars>>

\* send_handshake_ok of an orchestrator session; a failed send returns.
OrchHandshakeOk(o, ok) ==
    /\ pc[o] = "handshake"
    /\ handshake' = HandshakeReply(o, HandshakeOk, ok)
    /\ IF ok
       THEN /\ pc' = [pc EXCEPT ![o] = "loop"]
            /\ UNCHANGED <<orchestrator_count, has_slot, reply_rx_alive, reply_chan>>
       ELSE LeaveOrchestrator(o)
    /\ UNCHANGED <<primary_game_sender, pending_actions, cfg_vars, telemetry_vars, wire_vars, actor_vars, trace_vars,
                   game_vars, current, enq, relayed, ghost_vars, budget_vars>>

\* The peer closes, the stream ends or a read fails.
OrchRecvClose(o) ==
    /\ pc[o] = "loop"
    /\ LeaveOrchestrator(o)
    /\ UNCHANGED <<primary_game_sender, pending_actions, cfg_vars, telemetry_vars, wire_vars, actor_vars, trace_vars,
                   game_vars, current, enq, relayed, handshake, ghost_vars, budget_vars>>

\* action_reply_rx.recv(): the frame the session takes from its channel.
ReplyRecv(chan) == Head(chan)

\* action_reply_rx.recv() yields a frame and the session forwards it to its
\* peer; a failed send ends the session.
OrchForwardReply(o, ok) ==
    /\ pc[o] = "loop"
    /\ reply_chan[o] # << >>
    /\ IF ok
       THEN /\ relayed' = [relayed EXCEPT ![o] = Append(@, ReplyRecv(reply_chan[o]))]
            /\ reply_chan' = [reply_chan EXCEPT ![o] = Tail(@)]
            /\ UNCHANGED <<pc, orchestrator_count, has_slot, reply_rx_alive>>
       ELSE /\ LeaveOrchestrator(o)
            /\ UNCHANGED relayed
    /\ UNCHANGED <<primary_game_sender, pending_actions, cfg_vars, telemetry_vars, wire_vars, actor_vars, trace_vars,
                   game_vars, current, enq, handshake, ghost_vars, budget_vars>>

\* enqueue_action up to the read of the sender slot: the error it bails
\* with, or "ok".
EnqueueCheck(req) ==
    IF IsBlank(req.request_id) THEN "request_id must not be empty"
    ELSE IF ~IsBlank(req.target_agent_id) /\ req.target_agent_id # PrimaryGameAgentId
         THEN "target_agent_id does not match primary_game_agent_id"
    ELSE IF primary_game_sender = NoSender THEN "primary game client is not connected"
    ELSE "ok"

EnqueueCall(req, sender, result) ==
    [type |-> "enqueue_action", req |-> req, primary_sender |-> sender, result |-> result]

\* An ActionReq frame arrives from the peer: enqueue_action validates it and
\* clones the primary's sender under the slot lock.
RecvActionReq(o, req) ==
    /\ pc[o] = "loop"
    /\ n_reqs < MaxActionReqs
    /\ n_reqs' = n_reqs + 1
    /\ received' = [received EXCEPT ![o] = Traced(@, req)]
    /\ IF EnqueueCheck(req) = "ok"
       THEN /\ enq' = [enq EXCEPT ![o] = EnqueueCall(req, primary_game_sender, "running")]
            /\ pc' = [pc EXCEPT ![o] = "enqueue_insert"]
       ELSE /\ enq' = [enq EXCEPT ![o] = EnqueueCall(req, NoSender, EnqueueCheck(req))]
            /\ pc' = [pc EXCEPT ![o] = "nack"]
    /\ UNCHANGED <<hub_vars, cfg_vars, telemetry_vars, wire_vars, actor_vars, entered, delivered, nack_out,
                   game_vars, reply_chan,
                   reply_rx_alive, has_slot, current, relayed, handshake, reply_hist,
                   routed, n_inserted, n_cancelled, removed_by, n_replies>>

\* The ActionReq of a peer, its type left aside.
OrchRecvActionReq(o, rid, target) == RecvActionReq(o, ActionRequest(rid, target))

\* enqueue_action that goes on to the send without registering the request.
EnqueueWithoutInsert(o) ==
    /\ pc[o] = "enqueue_insert"
    /\ pc' = [pc EXCEPT ![o] = "enqueue_send"]
    /\ UNCHANGED <<hub_vars, cfg_vars, telemetry_vars, wire_vars, actor_vars, trace_vars, game_vars, orch_vars, handshake, ghost_vars,
                   budget_vars>>

\* enqueue_action registers the request: pending.insert(request_id, reply_tx).
EnqueueInsert(o) ==
    /\ pc[o] = "enqueue_insert"
    /\ pending_actions' = PendingInsert(pending_actions, enq[o].req.request_id, o)
    /\ n_inserted' = [n_inserted EXCEPT ![o][enq[o].req.request_id] = @ + 1]
    /\ pc' = [pc EXCEPT ![o] = "enqueue_send"]
    /\ UNCHANGED <<primary_game_sender, orchestrator_count, cfg_vars, telemetry_vars, wire_vars, actor_vars, trace_vars,
                   game_vars, orch_vars, handshake, reply_hist, routed, n_cancelled,
                   removed_by, budget_vars>>

\* enqueue_action whose send waits for room without a deadline.
EnqueueSendNoTimeout(o) ==
    /\ pc[o] = "enqueue_send"
    /\ LET g == enq[o].primary_sender IN
       \/ /\ action_rx_alive[g]
          /\ Len(action_chan[g]) < action_queue_size
          /\ action_chan' = [action_chan EXCEPT ![g] = Append(@, enq[o].req)]
          /\ entered' = [entered EXCEPT ![g] = Traced(@, [from |-> o, req |-> enq[o].req])]
          /\ enq' = [enq EXCEPT ![o] = NoCall]
          /\ pc' = [pc EXCEPT ![o] = "loop"]
       \/ /\ ~action_rx_alive[g]
          /\ enq' = [enq EXCEPT ![o].result = "primary game action queue closed"]
          /\ pc' = [pc EXCEPT ![o] = "enqueue_failed"]
          /\ UNCHANGED <<action_chan, entered>>
    /\ UNCHANGED <<hub_vars, cfg_vars, telemetry_vars, wire_vars, actor_vars, received, delivered, nack_out,
                   action_rx_alive,
                   is_primary_game, agent_id, route, drained, reply_chan,
                   reply_rx_alive, has_slot, current, relayed, handshake,
                   ghost_vars, budget_vars>>

\* timeout(action_send_timeout_ms, primary_sender.send(req)): the request
\* enters the channel, or the channel is closed, or it stays full until the
\* deadline.
EnqueueSend(o) ==
    /\ pc[o] = "enqueue_send"
    /\ LET g == enq[o].primary_sender IN
       \/ /\ action_rx_alive[g]
          /\ Len(action_chan[g]) < action_queue_size
          /\ action_chan' = [action_chan EXCEPT ![g] = Append(@, enq[o].req)]
          /\ entered' = [entered EXCEPT ![g] = Traced(@, [from |-> o, req |-> enq[o].req])]
          /\ enq' = [enq EXCEPT ![o] = NoCall]
          /\ pc' = [pc EXCEPT ![o] = "loop"]
       \/ /\ ~action_rx_alive[g]
          /\ enq' = [enq EXCEPT ![o].result = "primary game action queue closed"]
          /\ pc' = [pc EXCEPT ![o] = "enqueue_failed"]
          /\ UNCHANGED <<action_chan, entered>>
       \/ /\ action_rx_alive[g]
          /\ Len(action_chan[g]) >= action_queue_size
          /\ enq' = [enq EXCEPT ![o].result = "action enqueue timeout"]
          /\ pc' = [pc EXCEPT ![o] = "enqueue_failed"]
          /\ UNCHANGED <<action_chan, entered>>
    /\ UNCHANGED <<hub_vars, cfg_vars, telemetry_vars, wire_vars, actor_vars, received, delivered, nack_out,
                   action_rx_alive,
                   is_primary_game, agent_id, route, drained, reply_chan,
                   reply_rx_alive, has_slot, current, relayed, handshake,
                   ghost_vars, budget_vars>>

\* A failed send that leaves the entry in place.
EnqueueFailedKeepsEntry(rid) == pending_actions

\* pending_actions after the remove of a failed send.
EnqueueFailedPending(rid) == PendingRemove(pending_actions, rid)

\* enqueue_action after a failed send: it removes the entry and bails.
EnqueueFailed(o) ==
    /\ pc[o] = "enqueue_failed"
    /\ pending_actions' = EnqueueFailedPending(enq[o].req.request_id)
    /\ removed_by' = Removed({enq[o].req.request_id} \cap DOMAIN pending_actions,
                              "enqueue_action")
    /\ enq' = [enq EXCEPT ![o].primary_sender = NoSender]
    /\ pc' = [pc EXCEPT ![o] = "nack"]
    /\ UNCHANGED <<primary_game_sender, orchestrator_count, cfg_vars, telemetry_vars, wire_vars, actor_vars, trace_vars,
                   game_vars, reply_chan, reply_rx_alive, has_slot, current, relayed,
                   handshake, reply_hist, routed, n_inserted, n_cancelled,
                   budget_vars>>

\* A nack that reports the request as accepted.
NackAccepted(call) == ActionAck(call.req.request_id, TRUE, call.result)

\* handle_ws_message: the ActionAck built from the request and the error of a
\* failed enqueue_action.
Nack(call) == ActionAck(call.req.request_id, FALSE, call.result)

\* handle_ws_message answers a failed enqueue_action with a local
\* ActionAck{request_id, accepted=false, reason=error} sent to the peer; when
\* that send fails the session ends.
SendNack(o, ok) ==
    /\ pc[o] = "nack"
    /\ enq' = [enq EXCEPT ![o] = NoCall]
    /\ nack_out' = [nack_out EXCEPT ![o] = IF ok THEN Traced(@, Nack(enq[o])) ELSE @]
    /\ IF ok
       THEN /\ pc' = [pc EXCEPT ![o] = "loop"]
            /\ UNCHANGED <<orchestrator_count, has_slot, reply_rx_alive, reply_chan>>
       ELSE LeaveOrchestrator(o)
    /\ UNCHANGED <<primary_game_sender, pending_actions, cfg_vars, telemetry_vars, wire_vars, actor_vars,
                   received, entered, delivered, game_vars, current, relayed, handshake,
                   ghost_vars, budget_vars>>

----
Next ==
    \/ \E g \in GameSessions, agent \in AgentIds, ok \in BOOLEAN : GameHello(g, agent, ok)
    \/ \E g \in GameSessions : GameRecvClose(g)
    \/ \E g \in GameSessions, ok \in BOOLEAN : GameForwardAction(g, ok)
    \/ \E g \in GameSessions, rid \in RequestIds, accepted \in BOOLEAN :
          GameRecvActionAck(g, rid, accepted)
    \/ \E g \in GameSessions : RouteAckSend(g)
    \/ \E g \in GameSessions, rid \in RequestIds : GameRecvActionRes(g, rid)
    \/ \E g \in GameSessions : RouteResultSend(g)
    \/ \E g \in GameSessions : FailAllPendingDrain(g)
    \/ \E g \in GameSessions : FailAllPendingSend(g)
    \/ \E g \in GameSessions : DetachReturn(g)
    \/ \E o \in OrchSessions, ok \in BOOLEAN : OrchHello(o, ok)
    \/ \E o \in OrchSessions, ok \in BOOLEAN : AcquireLoad(o, ok)
    \/ \E o \in OrchSessions : AcquireCas(o)
    \/ \E o \in OrchSessions, ok \in BOOLEAN : OrchHandshakeOk(o, ok)
    \/ \E o \in OrchSessions : OrchRecvClose(o)
    \/ \E o \in OrchSessions, ok \in BOOLEAN : OrchForwardReply(o, ok)
    \/ \E o \in OrchSessions, rid \in RequestIds, target \in TargetAgentIds :
          OrchRecvActionReq(o, rid, target)
    \/ \E o \in OrchSessions : EnqueueInsert(o)
    \/ \E o \in OrchSessions : EnqueueSend(o)
    \/ \E o \in OrchSessions : EnqueueFailed(o)
    \/ \E o \in OrchSessions, ok \in BOOLEAN : SendNack(o, ok)

Spec == Init /\ [][Next]_vars

SpecConcurrent == InitConcurrent /\ [][Next]_vars

----
\* Back-pressure between the primary and an orchestrator: both channels full

\* One game client and one orchestrator.
InitBackpressure ==
    /\ Start({"g1", "o1"}, TRUE, 1)
    /\ TelemetryStart(0)
    /\ WireStart({})
    /\ ActorStart(1, 1, 1)

\* tokio polls every task that is ready and fires every timer: a step of a
\* session that stays possible is taken.  The steps are those that follow a
\* session's own await: the insert and the timed send of enqueue_action, its
\* clean-up and the nack, the forward of a reply or of a request taken from a
\* channel, and the sends of route_action_ack, route_action_result and
\* fail_all_pending.
TaskFairness ==
    /\ \A o \in OrchSessions :
          /\ WF_vars(EnqueueInsert(o))
          /\ WF_vars(EnqueueSend(o))
          /\ WF_vars(EnqueueFailed(o))
          /\ WF_vars(\E ok \in BOOLEAN : SendNack(o, ok))
          /\ WF_vars(\E ok \in BOOLEAN : OrchForwardReply(o, ok))
    /\ \A g \in GameSessions :
          /\ WF_vars(\E ok \in BOOLEAN : GameForwardAction(g, ok))
          /\ WF_vars(RouteAckSend(g))
          /\ WF_vars(RouteResultSend(g))
          /\ WF_vars(FailAllPendingDrain(g))
          /\ WF_vars(FailAllPendingSend(g))
          /\ WF_vars(DetachReturn(g))

\* The relay between one primary and one orchestrator, every ready task
\* scheduled.
SpecBackpressure == InitBackpressure /\ [][Next]_vars /\ TaskFairness

----
\* The action path traced: what the peers of the sessions send and are sent

\* pb::ActionType as the requests of a peer may carry it; "OTHER" stands for
\* every value that is neither STOP_ALL nor BARITONE_GOTO, the integers that
\* name no ActionType among them.
ActionTypes == {"STOP_ALL", "BARITONE_GOTO", "OTHER"}

\* action_client::is_allowlisted
IsAllowlisted(action_type) == action_type \in {"STOP_ALL", "BARITONE_GOTO"}

\* The ActionReq frames an orchestrator peer may send: a request of each type
\* for the primary, one with a blank request_id and one for another agent.
PeerActionReqs ==
    {TypedActionRequest(<<"a">>, <<" ">>, action_type) : action_type \in ActionTypes}
    \cup {TypedActionRequest(<<" ">>, <<" ">>, "STOP_ALL"),
          TypedActionRequest(<<"a">>, <<"x">>, "STOP_ALL")}

\* relay_cfg.action_queue_size in the traced runs: a channel that a single
\* request fills, and one that holds a request while the next is sent.
ActionQueueSizes == {ActionQueueSize, ActionQueueSize + 1}

\* One game client and two orchestrators, the action path traced.
InitActions ==
    /\ \E size \in ActionQueueSizes : StartHub(ConcurrentScenario, TRUE, 2, size, TRUE)
    /\ TelemetryStart(0)
    /\ WireStart({})
    /\ ActorStart(1, 1, 1)

NextActions ==
    \/ \E g \in GameSessions, agent \in AgentIds, ok \in BOOLEAN : GameHello(g, agent, ok)
    \/ \E g \in GameSessions : GameRecvClose(g)
    \/ \E g \in GameSessions, ok \in BOOLEAN : GameForwardAction(g, ok)
    \/ \E g \in GameSessions : FailAllPendingDrain(g)
    \/ \E g \in GameSessions : FailAllPendingSend(g)
    \/ \E g \in GameSessions : DetachReturn(g)
    \/ \E o \in OrchSessions, ok \in BOOLEAN : OrchHello(o, ok)
    \/ \E o \in OrchSessions, ok \in BOOLEAN : AcquireLoad(o, ok)
    \/ \E o \in OrchSessions : AcquireCas(o)
    \/ \E o \in OrchSessions, ok \in BOOLEAN : OrchHandshakeOk(o, ok)
    \/ \E o \in OrchSessions : OrchRecvClose(o)
    \/ \E o \in OrchSessions, ok \in BOOLEAN : OrchForwardReply(o, ok)
    \/ \E o \in OrchSessions, req \in PeerActionReqs : RecvActionReq(o, req)
    \/ \E o \in OrchSessions : EnqueueInsert(o)
    \/ \E o \in OrchSessions : EnqueueSend(o)
    \/ \E o \in OrchSessions : EnqueueFailed(o)
    \/ \E o \in OrchSessions, ok \in BOOLEAN : SendNack(o, ok)

\* The relay in the direction of the primary, the frames of the action path
\* recorded; the primary's peer sends no ActionAck and no ActionRes.
SpecActions == InitActions /\ [][NextActions]_vars

----
\* Telemetry: RelayHub::publish_telemetry and the orchestrator loop's
\* telemetry branch

MaxTelemetry == 4
MaxClockMs == 200
ClockTickMs == 10
RelayIntervals == {0, 100}

session_vars == <<game_vars, orch_vars, pc, handshake, ghost_vars, budget_vars, trace_vars>>
relay_vars == <<hub_vars, cfg_vars, session_vars>>

\* The hub with no session connected yet, with and without rate limit.
InitRateLimit ==
    /\ Start({}, TRUE, 1)
    /\ \E interval \in RelayIntervals : TelemetryStart(interval)
    /\ WireStart({})
    /\ ActorStart(1, 1, 1)

\* The hub with no session connected yet and the rate limit switched off.
InitFanOut ==
    /\ Start({}, TRUE, 2)
    /\ TelemetryStart(0)
    /\ WireStart({})
    /\ ActorStart(1, 1, 1)

\* Time passes.
Tick ==
    /\ clock + ClockTickMs <= MaxClockMs
    /\ clock' = clock + ClockTickMs
    /\ UNCHANGED <<T0, last_relay_mono_ms, min_relay_interval_ms, watch_vars,
                   subscriber_vars, relay_vars, wire_vars, actor_vars>>

\* T0.get_or_init(Instant::now): the instant of the first call.
MonoT0 == IF T0 = Unset THEN clock ELSE T0

\* relay.rs mono_ms(): milliseconds elapsed since T0.
MonoMs == clock - MonoT0

\* u64::saturating_sub
SaturatingSub(a, b) == IF a >= b THEN a - b ELSE 0

\* publish_telemetry: now.saturating_sub(last) < min_relay_interval_ms.
RateLimited(now) == SaturatingSub(now, last_relay_mono_ms) < min_relay_interval_ms

\* telemetry_tx.send_replace(Some(telemetry)): the value is stored and the
\* version of the channel moves on.
SendReplace(value) ==
    /\ telemetry_tx' = [value |-> value, version |-> telemetry_tx.version + 1]
    /\ broadcast' = Append(broadcast, value)
    /\ overwrote_at' = clock

\* RelayHub::publish_telemetry, run by the primary game session on a
\* Telemetry frame of its peer.  The frames are told apart by their number.
PublishTelemetry ==
    /\ n_telemetry < MaxTelemetry
    /\ n_telemetry' = n_telemetry + 1
    /\ published_at' = Append(published_at, clock)
    /\ IF min_relay_interval_ms > 0
       THEN /\ T0' = MonoT0
            /\ IF RateLimited(MonoMs)
               THEN UNCHANGED <<last_relay_mono_ms, telemetry_tx, broadcast, overwrote_at>>
               ELSE /\ last_relay_mono_ms' = MonoMs
                    /\ SendReplace(n_telemetry + 1)
       ELSE /\ SendReplace(n_telemetry + 1)
            /\ UNCHANGED <<T0, last_relay_mono_ms>>
    /\ UNCHANGED <<clock, min_relay_interval_ms, subscriber_vars>>

\* The primary game session handles a Telemetry frame of its peer.
GameRecvTelemetry == PublishTelemetry /\ UNCHANGED <<relay_vars, wire_vars, actor_vars>>

\* relay_hub.subscribe_telemetry() of an admitted orchestrator session: the
\* new receiver has seen the version the channel has now.
OrchSubscribe(o) ==
    /\ tpc[o] = "absent"
    /\ tpc' = [tpc EXCEPT ![o] = "wait"]
    /\ telemetry_rx' = [telemetry_rx EXCEPT ![o] = telemetry_tx.version]
    /\ subscribed_at' = [subscribed_at EXCEPT ![o] = Len(broadcast)]
    /\ UNCHANGED <<limiter_vars, watch_vars, forwarded, relay_vars, wire_vars, actor_vars>>

\* wait_for_telemetry, telemetry_rx.changed().await: completes when the
\* channel's version is not the one the receiver has seen, and marks that
\* version seen.
TelemetryChanged(o) ==
    /\ tpc[o] = "wait"
    /\ telemetry_tx.version # telemetry_rx[o]
    /\ telemetry_rx' = [telemetry_rx EXCEPT ![o] = telemetry_tx.version]
    /\ tpc' = [tpc EXCEPT ![o] = "borrow"]
    /\ UNCHANGED <<limiter_vars, watch_vars, forwarded, subscribed_at, relay_vars, wire_vars, actor_vars>>

\* wait_for_telemetry, telemetry_rx.borrow(): the version seen stays what
\* changed() left.
Borrow(o) == telemetry_rx[o]

\* wait_for_telemetry, telemetry_rx.borrow().clone(), and the loop's
\* send_envelope of the Telemetry frame: the value the channel holds now is
\* sent; a failed send ends the session.
TelemetryForward(o, ok) ==
    /\ tpc[o] = "borrow"
    /\ telemetry_rx' = [telemetry_rx EXCEPT ![o] = Borrow(o)]
    /\ IF telemetry_tx.value = NoTelemetry
       THEN /\ tpc' = [tpc EXCEPT ![o] = "done"]
            /\ UNCHANGED forwarded
       ELSE IF ok
       THEN /\ forwarded' = [forwarded EXCEPT ![o] = Append(@, telemetry_tx.value)]
            /\ tpc' = [tpc EXCEPT ![o] = "wait"]
       ELSE /\ tpc' = [tpc EXCEPT ![o] = "done"]
            /\ UNCHANGED forwarded
    /\ UNCHANGED <<limiter_vars, watch_vars, subscribed_at, relay_vars, wire_vars, actor_vars>>

\* The orchestrator's peer closes while the loop waits in select!.
OrchTelemetryClose(o) ==
    /\ tpc[o] = "wait"
    /\ tpc' = [tpc EXCEPT ![o] = "done"]
    /\ UNCHANGED <<limiter_vars, watch_vars, telemetry_rx, forwarded, subscribed_at,
                   relay_vars, wire_vars, actor_vars>>

NextRateLimit ==
    \/ Tick
    \/ GameRecvTelemetry

NextFanOut ==
    \/ GameRecvTelemetry
    \/ \E o \in OrchSessions : OrchSubscribe(o)
    \/ \E o \in OrchSessions : TelemetryChanged(o)
    \/ \E o \in OrchSessions, ok \in BOOLEAN : TelemetryForward(o, ok)
    \/ \E o \in OrchSessions : OrchTelemetryClose(o)

\* The primary publishing under the rate limit while time passes.
SpecRateLimit == InitRateLimit /\ [][NextRateLimit]_vars

\* The primary publishing without rate limit to the orchestrator sessions.
SpecFanOut == InitFanOut /\ [][NextFanOut]_vars

----
\* The wire side of run_ws_session: handshake, handle_ws_message and
\* send_envelope

MaxWireFrames == 3

ProtocolVersion == 1

ServerNegotiableCapabilities ==
    <<"CAP_TELEMETRY_V1", "CAP_TIMESYNC_V1", "CAP_ACTIONS_V1", "CAP_HELLO_ACK_V1">>

LegacyCapabilities == <<"CAP_TELEMETRY_V1", "CAP_TIMESYNC_V1", "CAP_ACTIONS_V1">>

ServerVersion == "miqbot-bridge-server/0.3.0"

\* hello.capabilities is a list: it may repeat a capability and name one the
\* server does not know.
PeerCapLists ==
    {<< >>,
     <<"CAP_ACTIONS_V1", "CAP_TELEMETRY_V1">>,
     <<"CAP_HELLO_ACK_V1">>,
     <<"CAP_OTHER", "CAP_HELLO_ACK_V1", "CAP_ACTIONS_V1", "CAP_ACTIONS_V1">>}

\* pb::PeerRole, and the hello.role values a peer may send ("unknown" stands
\* for an integer that names no PeerRole).
PeerRoles == {"unspecified", "game_client", "orchestrator", "bridge_server"}
WireRoles == PeerRoles \cup {"unknown"}

\* pb::PeerRole::from_i32(hello.role).unwrap_or(PeerRoleUnspecified)
PeerRoleFromI32(role) == IF role \in PeerRoles THEN role ELSE "unspecified"

ClientHandshakeIds == {<< >>, <<"h">>}
PeerSeqs == {2, 5}

Range(q) == {q[i] : i \in DOMAIN q}

HelloFrame(agent, role, caps, hid) ==
    [type |-> "Hello", agent_id |-> agent, role |-> role, capabilities |-> caps,
     handshake_id |-> hid]

HelloAck(hid, accepted, reason, negotiated) ==
    [type |-> "HelloAck", handshake_id |-> hid, accepted |-> accepted, reason |-> reason,
     negotiated_capabilities |-> negotiated, server_version |-> ServerVersion]

\* send_error: the ErrorFrame; its correlation_id is the hint and a fresh uuid.
ErrorFrame(code, message, hint) ==
    [type |-> "Error", code |-> code, message |-> message, correlation_hint |-> hint]

\* What the peer's side of the websocket may yield.
PeerEnvelope(version, seq, payload) ==
    [kind |-> "envelope", protocol_version |-> version, seq |-> seq, payload |-> payload]

PeerHellos ==
    {HelloFrame(agent, role, caps, hid) :
        agent \in AgentIds, role \in WireRoles, caps \in PeerCapLists,
        hid \in ClientHandshakeIds}

\* The first thing run_ws_session gets from ws.next() within hello_timeout_ms,
\* or the timeout.
FirstFrames ==
    {[kind |-> k] : k \in {"timeout", "closed", "read_error", "undecodable"}}
    \cup {PeerEnvelope(v, q, pl) :
             v \in {ProtocolVersion, ProtocolVersion + 1}, q \in PeerSeqs,
             pl \in PeerHellos \cup {[type |-> "Heartbeat"], NoFrame}}

\* The valid Hellos of the admission runs: every role and agent id, with and
\* without CAP_HELLO_ACK_V1.
AdmissionHellos ==
    {PeerEnvelope(ProtocolVersion, 2, HelloFrame(agent, role, caps, << >>)) :
        agent \in AgentIds, role \in WireRoles,
        caps \in {<< >>, <<"CAP_HELLO_ACK_V1">>}}

\* The frames a peer may send after the handshake.
PeerFrames ==
    {[kind |-> k] : k \in {"ping", "text", "undecodable"}}
    \cup {PeerEnvelope(v, q, pl) :
             v \in {ProtocolVersion, ProtocolVersion + 1}, q \in PeerSeqs,
             pl \in {[type |-> "Telemetry"], [type |-> "Heartbeat"], [type |-> "TimeSyncReq"],
                     ActionRequest(<<"a">>, <<" ">>), ActionRequest(<<" ">>, <<" ">>),
                     ActionAck(<<"a">>, TRUE, ""), ActionResult(<<"a">>, "ok", ""),
                     HelloFrame(<<"x">>, "game_client", << >>, <<"h">>), NoFrame}}

\* SessionState::supports_hello_ack
SupportsHelloAck(state) == "CAP_HELLO_ACK_V1" \in Range(state.peer_caps)

\* negotiated_capabilities: the server's list filtered by the peer's.
NegotiatedCapabilities(peer_caps) ==
    SelectSeq(ServerNegotiableCapabilities, LAMBDA cap : cap \in Range(peer_caps))

\* A bridge that adopts the handshake_id of the client when it sent one.
ClientHandshakeIdWins(state, hello) ==
    IF IsBlank(hello.handshake_id) THEN state.session_id ELSE hello.handshake_id

\* run_ws_session: let handshake_id = st.session_id.clone(); the client's
\* handshake_id is logged only.
HandshakeId(state, hello) == state.session_id

\* send_handshake_ok that answers every peer with a HelloAck.
AlwaysHelloAck(state, use_hello_ack, hid) ==
    HelloAck(hid, TRUE, "ok", NegotiatedCapabilities(state.peer_caps))

\* send_handshake_ok: the payload it hands to send_envelope.
SendHandshakeOk(state, use_hello_ack, hid) ==
    IF use_hello_ack
    THEN HelloAck(hid, TRUE, "ok", NegotiatedCapabilities(state.peer_caps))
    ELSE HelloFrame(<<"bridge">>, "bridge_server", LegacyCapabilities, hid)

\* send_handshake_reject: the payload it hands to send_envelope.
SendHandshakeReject(use_hello_ack, hid, reason) ==
    IF use_hello_ack
    THEN HelloAck(hid, FALSE, reason, << >>)
    ELSE ErrorFrame("unauthorized", reason, "hello-reject")

\* send_envelope that numbers a frame with the count before it.
ServerSeqNotAdvanced(state) == state.server_seq

\* send_envelope: st.server_seq += 1.
NextServerSeq(state) == state.server_seq + 1

\* send_envelope that acknowledges one more than the peer has sent.
AckAhead(state) == state.last_peer_seq + 1

\* send_envelope: ack: st.last_peer_seq.
EnvelopeAck(state) == state.last_peer_seq

\* send_envelope: the SessionState after the call and the envelope it hands
\* to ws.send.
SendEnvelope(state, payload) ==
    LET after == [state EXCEPT !.server_seq = NextServerSeq(state)]
    IN [st |-> after,
        env |-> [protocol_version |-> ProtocolVersion, session_id |-> after.session_id,
                 seq |-> after.server_seq, ack |-> EnvelopeAck(after), payload |-> payload]]

\* acquire_orchestrator_slot as a whole (its load and compare_exchange are
\* single steps in Spec).
AcquireOrchestratorSlot ==
    IF ~allow_orchestrator_subscribe THEN "NotAllowed"
    ELSE IF orchestrator_count >= max_orchestrator_subscribers THEN "LimitReached"
    ELSE "ok"

HelloResult(verdict, state, out, attach, acquire) ==
    [verdict |-> verdict, st |-> state, out |-> out, attach |-> attach, acquire |-> acquire]

\* A role that run_ws_session rejects is admitted as an observer.
DispatchAdmitsAnyRole(state, hello) ==
    LET use_hello_ack == SupportsHelloAck(state)
        hid == HandshakeId(state, hello)
    IN HelloResult("accepted", state, SendHandshakeOk(state, use_hello_ack, hid), FALSE, FALSE)

\* run_ws_session, the role that is neither game client nor orchestrator.
DispatchOtherRole(state, hello) ==
    LET use_hello_ack == SupportsHelloAck(state)
        hid == HandshakeId(state, hello)
    IN HelloResult("rejected", state,
                   SendHandshakeReject(use_hello_ack, hid, "unsupported peer role"),
                   FALSE, FALSE)

\* run_ws_session from the Hello on: role dispatch against the hub.
Dispatch(state, hello) ==
    LET use_hello_ack == SupportsHelloAck(state)
        hid == HandshakeId(state, hello)
        accept(after, attach, acquire) ==
            HelloResult("accepted", after, SendHandshakeOk(after, use_hello_ack, hid),
                        attach, acquire)
        reject(reason) ==
            HelloResult("rejected", state, SendHandshakeReject(use_hello_ack, hid, reason),
                        FALSE, FALSE)
    IN IF state.peer_role = "game_client"
       THEN IF hello.agent_id = PrimaryGameAgentId
            THEN IF AttachPrimaryGameSender(hello.agent_id) = "ok"
                 THEN accept([state EXCEPT !.is_primary_game = TRUE], TRUE, FALSE)
                 ELSE reject("primary game sender is unavailable")
            ELSE accept(state, FALSE, FALSE)
       ELSE IF state.peer_role = "orchestrator"
       THEN IF AcquireOrchestratorSlot = "NotAllowed"
            THEN reject("orchestrator subscriptions are disabled")
            ELSE IF AcquireOrchestratorSlot = "LimitReached"
            THEN reject("orchestrator subscription limit reached")
            ELSE accept(state, FALSE, TRUE)
       ELSE DispatchOtherRole(state, hello)

\* A handshake that does not look at the envelope's protocol_version.
VersionUnchecked(env) == FALSE

\* hello_env.protocol_version != PROTOCOL_VERSION
VersionMismatch(env) == env.protocol_version # ProtocolVersion

\* run_ws_session up to the handshake reply, on the first thing ws.next()
\* yields: how the handshake ends, the SessionState, the payload handed to
\* send_envelope (NoFrame when nothing is sent) and what is taken from the hub.
RunHello(state, first) ==
    LET fail(after, out) == HelloResult("failed", after, out, FALSE, FALSE)
    IN IF first.kind = "timeout"
       THEN fail(state, ErrorFrame("timeout", "hello timeout", "hello-timeout"))
       ELSE IF first.kind \in {"closed", "read_error"}
       THEN fail(state, NoFrame)
       ELSE IF first.kind = "undecodable"
       THEN fail(state, ErrorFrame("decode_failed", "invalid hello envelope", "hello-decode"))
       ELSE LET seen == [state EXCEPT !.last_peer_seq = first.seq]
            IN IF VersionMismatch(first)
               THEN fail(seen, ErrorFrame("protocol_violation", "protocol_version mismatch",
                                          "hello-proto"))
               ELSE IF first.payload.type # "Hello"
               THEN fail(seen, ErrorFrame("protocol_violation", "expected hello", "hello-shape"))
               ELSE Dispatch([seen EXCEPT !.agent_id = first.payload.agent_id,
                                          !.peer_caps = first.payload.capabilities,
                                          !.peer_role = PeerRoleFromI32(first.payload.role)],
                             first.payload)

\* The sessions send their first frame in the order of their names.
WireOrder == <<"w1", "w2", "w3">>

WireArrival(s) ==
    \A i, j \in 1..Len(WireOrder) : (WireOrder[j] = s /\ i < j) => wpc[WireOrder[i]] # "hello"

\* ws.send within send_timeout_ms delivered the envelope, or did not.
Deliver(s, e, ok) ==
    IF ok
    THEN /\ sent_last' = [sent_last EXCEPT ![s] = e.env]
         /\ n_sent' = [n_sent EXCEPT ![s] = @ + 1]
    ELSE UNCHANGED <<sent_last, n_sent>>

\* run_ws_session from accept to the end of the handshake.  When the reply of
\* an accepted handshake cannot be sent the function returns: the
\* OrchestratorSlot is dropped, the attached sender is not detached.
WireHello(s, first, ok) ==
    /\ wpc[s] = "hello"
    /\ WireArrival(s)
    /\ LET r == RunHello(st[s], first)
           e == SendEnvelope(r.st, r.out)
           stays == r.verdict = "accepted" /\ ok
       IN /\ r.out = NoFrame => ok
          /\ hello_in' = [hello_in EXCEPT ![s] = first]
          /\ hs_verdict' = [hs_verdict EXCEPT ![s] = r.verdict]
          /\ hs_reply' = [hs_reply EXCEPT ![s] = r.out]
          /\ peer_seqs' = IF first.kind = "envelope"
                          THEN [peer_seqs EXCEPT ![s] = @ \cup {first.seq}]
                          ELSE peer_seqs
          /\ IF r.out = NoFrame
             THEN /\ st' = [st EXCEPT ![s] = r.st]
                  /\ UNCHANGED <<sent_last, n_sent>>
             ELSE /\ st' = [st EXCEPT ![s] = e.st]
                  /\ Deliver(s, e, ok)
          /\ wpc' = [wpc EXCEPT ![s] = IF stays THEN "open" ELSE "done"]
          /\ primary_game_sender' = IF r.attach THEN s ELSE primary_game_sender
          /\ orchestrator_count' =
                IF r.acquire /\ stays THEN orchestrator_count + 1 ELSE orchestrator_count
          /\ w_slot' = [w_slot EXCEPT ![s] = r.acquire /\ stays]
    /\ UNCHANGED <<pending_actions, cfg_vars, session_vars, actor_vars, telemetry_vars, n_wire>>

\* The session loop has ended: a primary detaches (no action is pending in
\* these runs, so fail_all_pending finds nothing), and the function's locals
\* are dropped, the OrchestratorSlot among them.
WireLeave(s) ==
    /\ wpc' = [wpc EXCEPT ![s] = "done"]
    /\ primary_game_sender' = IF st[s].is_primary_game THEN NoSender ELSE primary_game_sender
    /\ orchestrator_count' =
          IF w_slot[s] THEN OrchestratorSlotDrop(orchestrator_count) ELSE orchestrator_count
    /\ w_slot' = [w_slot EXCEPT ![s] = FALSE]

\* The peer closes, the stream ends or a read fails: the loop is left.
WireRecvClose(s) ==
    /\ wpc[s] = "open"
    /\ WireLeave(s)
    /\ UNCHANGED <<pending_actions, cfg_vars, session_vars, actor_vars, telemetry_vars,
                   st, hello_in, hs_verdict, hs_reply, sent_last, n_sent, peer_seqs, n_wire>>

MsgResult(state, out, publish) == [st |-> state, out |-> out, publish |-> publish]

\* A handle_ws_message that records the seq of an envelope before it looks at
\* its protocol_version, as the handshake does.
MsgProtoErrorRecordsSeq(state, frame) ==
    MsgResult([state EXCEPT !.last_peer_seq = frame.seq],
              ErrorFrame("protocol_violation", "protocol_version mismatch", "msg-proto"), FALSE)

\* handle_ws_message, env.protocol_version != PROTOCOL_VERSION: send_error
\* and return Ok(true) before st.last_peer_seq = env.seq.
MsgProtoError(state, frame) ==
    MsgResult(state, ErrorFrame("protocol_violation", "protocol_version mismatch", "msg-proto"),
              FALSE)

\* handle_ws_message on a frame that is not a close: the SessionState, the
\* payload handed to send_envelope (NoFrame when nothing is sent), and
\* whether publish_telemetry runs.  An ActionReq of an orchestrator runs
\* enqueue_action, which fails while no primary is attached.
HandleWsMessage(state, frame) ==
    IF frame.kind \in {"ping", "text"} THEN MsgResult(state, NoFrame, FALSE)
    ELSE IF frame.kind = "undecodable"
    THEN MsgResult(state, ErrorFrame("decode_failed", "decode failed", "msg-decode"), FALSE)
    ELSE IF VersionMismatch(frame)
    THEN MsgProtoError(state, frame)
    ELSE LET seen == [state EXCEPT !.last_peer_seq = frame.seq]
             pl == frame.payload
         IN IF pl.type = "Telemetry"
            THEN MsgResult(seen, NoFrame,
                           seen.peer_role = "game_client" /\ seen.is_primary_game)
            ELSE IF pl.type = "TimeSyncReq"
            THEN MsgResult(seen, [type |-> "TimeSyncRes"], FALSE)
            ELSE IF pl.type = "ActionReq" /\ seen.peer_role = "orchestrator"
            THEN MsgResult(seen, ActionAck(pl.request_id, FALSE, EnqueueCheck(pl)), FALSE)
            ELSE MsgResult(seen, NoFrame, FALSE)

\* A handle_ws_message that routes the ActionAck and ActionRes of every game
\* client.
ActionCallOfAnyGameClient(state, frame) ==
    IF frame.kind # "envelope" \/ VersionMismatch(frame) THEN "none"
    ELSE IF frame.payload.type = "ActionReq" /\ state.peer_role = "orchestrator"
    THEN "enqueue_action"
    ELSE IF frame.payload.type = "ActionAck" /\ state.peer_role = "game_client"
    THEN "route_action_ack"
    ELSE IF frame.payload.type = "ActionRes" /\ state.peer_role = "game_client"
    THEN "route_action_result"
    ELSE "none"

\* handle_ws_message, the arms of its match for ActionReq, ActionAck and
\* ActionRes: the method of the hub's action relay it calls, if any.
ActionCall(state, frame) ==
    IF frame.kind # "envelope" \/ VersionMismatch(frame) THEN "none"
    ELSE IF frame.payload.type = "ActionReq" /\ state.peer_role = "orchestrator"
    THEN "enqueue_action"
    ELSE IF /\ frame.payload.type = "ActionAck"
            /\ state.peer_role = "game_client" /\ state.is_primary_game
    THEN "route_action_ack"
    ELSE IF /\ frame.payload.type = "ActionRes"
            /\ state.peer_role = "game_client" /\ state.is_primary_game
    THEN "route_action_result"
    ELSE "none"

\* route_action_ack / route_action_result for the frame of a wire session: the
\* entry is looked up or removed and the frame put into the reply channel it
\* names.
WireRoute(state, frame) ==
    LET call == ActionCall(state, frame)
        routes == /\ call \in {"route_action_ack", "route_action_result"}
                  /\ frame.payload.request_id \in DOMAIN pending_actions
    IN IF routes
       THEN /\ pending_actions' = IF call = "route_action_ack"
                                  THEN RouteAckPending(frame.payload)
                                  ELSE RouteResultPending(frame.payload.request_id)
            /\ ReplySend(pending_actions[frame.payload.request_id], frame.payload)
       ELSE UNCHANGED <<pending_actions, reply_chan, reply_hist>>

\* A frame arrives from the peer in the session loop.  A failed send of the
\* answer ends the session.  (No primary is attached while an orchestrator
\* session is open in these runs; the enqueue that succeeds is a step of Spec.)
WireRecv(s, frame, ok) ==
    /\ wpc[s] = "open"
    /\ n_wire < MaxWireFrames
    /\ n_wire' = n_wire + 1
    /\ LET r == HandleWsMessage(st[s], frame)
           e == SendEnvelope(r.st, r.out)
       IN /\ r.out = NoFrame => ok
          /\ r.out.type = "ActionAck" => r.out.reason # "ok"
          /\ peer_seqs' = IF frame.kind = "envelope"
                          THEN [peer_seqs EXCEPT ![s] = @ \cup {frame.seq}]
                          ELSE peer_seqs
          /\ IF r.out = NoFrame
             THEN /\ st' = [st EXCEPT ![s] = r.st]
                  /\ UNCHANGED <<sent_last, n_sent>>
             ELSE /\ st' = [st EXCEPT ![s] = e.st]
                  /\ Deliver(s, e, ok)
          /\ IF r.publish
             THEN PublishTelemetry
             ELSE UNCHANGED telemetry_vars
          /\ IF ok
             THEN UNCHANGED <<wpc, primary_game_sender, orchestrator_count, w_slot>>
             ELSE WireLeave(s)
    /\ WireRoute(st[s], frame)
    /\ UNCHANGED <<cfg_vars, game_vars, reply_rx_alive, has_slot, current, enq, relayed, pc,
                   handshake, routed, n_inserted, n_cancelled, removed_by, budget_vars, trace_vars,
                   actor_vars, hello_in, hs_verdict, hs_reply>>

\* What the hub's channels may hand the session loop to send: Telemetry and
\* ActionRelayFrames for an orchestrator, ActionRequests for the primary.
\* Which of them arrive is decided by the other sessions.
RelayPayloads ==
    {[type |-> "Telemetry"], ActionAck(<<"a">>, TRUE, ""), ActionResult(<<"a">>, "ok", "")}

PrimaryPayloads == {ActionRequest(<<"a">>, <<" ">>)}

ForwardPayloads(state) ==
    IF state.peer_role = "orchestrator" THEN RelayPayloads
    ELSE IF state.is_primary_game THEN PrimaryPayloads
    ELSE {}

\* The session loop sends what one of its channels yields.
WireForward(s, payload, ok) ==
    /\ wpc[s] = "open"
    /\ n_wire < MaxWireFrames
    /\ n_wire' = n_wire + 1
    /\ payload \in ForwardPayloads(st[s])
    /\ LET e == SendEnvelope(st[s], payload)
       IN /\ st' = [st EXCEPT ![s] = e.st]
          /\ Deliver(s, e, ok)
    /\ IF ok
       THEN UNCHANGED <<wpc, primary_game_sender, orchestrator_count, w_slot>>
       ELSE WireLeave(s)
    /\ UNCHANGED <<pending_actions, cfg_vars, session_vars, actor_vars, telemetry_vars,
                   hello_in, hs_verdict, hs_reply, peer_seqs>>

\* One connection and an empty hub.
InitWire ==
    /\ \E allow \in BOOLEAN : Start({}, allow, 1)
    /\ TelemetryStart(0)
    /\ WireStart({"w1"})
    /\ ActorStart(1, 1, 1)

\* Three connections and room for two orchestrators.
InitAdmission ==
    /\ \E allow \in BOOLEAN : Start({}, allow, 2)
    /\ TelemetryStart(0)
    /\ WireStart(WireSessions)
    /\ ActorStart(1, 1, 1)

NextWire ==
    \/ \E s \in WireSessions, first \in FirstFrames, ok \in BOOLEAN : WireHello(s, first, ok)
    \/ \E s \in WireSessions : WireRecvClose(s)
    \/ \E s \in WireSessions, frame \in PeerFrames, ok \in BOOLEAN : WireRecv(s, frame, ok)
    \/ \E s \in WireSessions, payload \in RelayPayloads \cup PrimaryPayloads, ok \in BOOLEAN :
          WireForward(s, payload, ok)

NextAdmission ==
    \/ \E s \in WireSessions, first \in AdmissionHellos, ok \in BOOLEAN : WireHello(s, first, ok)
    \/ \E s \in WireSessions : WireRecvClose(s)

\* One session from its first frame to its end.
SpecWire == InitWire /\ [][NextWire]_vars

\* Three sessions with valid Hellos competing for the hub.
SpecAdmission == InitAdmission /\ [][NextAdmission]_vars

----
\* Websocket messages that are not binary, before and after the Hello

\* What Envelope::decode makes of the bytes of a message: nothing, the default
\* Envelope of an empty message (protocol_version 0, seq 0, no payload), or
\* the Hello a peer has encoded.
MessageData ==
    {[kind |-> "undecodable"],
     PeerEnvelope(0, 0, NoFrame),
     PeerEnvelope(ProtocolVersion, 2, HelloFrame(<<"x">>, "game_client", << >>, << >>)),
     PeerEnvelope(ProtocolVersion, 2,
                  HelloFrame(<<"x">>, "orchestrator", <<"CAP_HELLO_ACK_V1">>, << >>))}

\* tungstenite's Message: ping and text carry bytes as binary does.
WsMessages == [kind : {"ping", "text", "binary"}, data : MessageData]

\* decode_envelope: msg.into_data() handed to Envelope::decode, whatever the
\* kind of the message.
DecodeEnvelope(msg) == msg.data

\* run_ws_session on a first message: it is decoded without a look at its
\* kind.
WireFirstMessage(s, msg, ok) == WireHello(s, DecodeEnvelope(msg), ok)

LoopFrames ==
    {[kind |-> k] : k \in {"ping", "text"}}
    \cup {PeerEnvelope(ProtocolVersion, 5, [type |-> "Heartbeat"])}

\* Two connections and room for one orchestrator.
InitFrames ==
    /\ \E allow \in BOOLEAN : Start({}, allow, 1)
    /\ TelemetryStart(0)
    /\ WireStart({"w1", "w2"})
    /\ ActorStart(1, 1, 1)

NextFrames ==
    \/ \E s \in WireSessions, msg \in WsMessages, ok \in BOOLEAN : WireFirstMessage(s, msg, ok)
    \/ \E s \in WireSessions : WireRecvClose(s)
    \/ \E s \in WireSessions, frame \in LoopFrames, ok \in BOOLEAN : WireRecv(s, frame, ok)

\* Sessions whose peers send pings and text before and after their Hello.
SpecFrames == InitFrames /\ [][NextFrames]_vars

----
\* Sessions that are not the primary, beside a primary and an orchestrator
\* with actions in flight

\* The Hellos of the sessions beside the primary: a game client with another
\* agent id, and an orchestrator.
ObserverHellos ==
    {PeerEnvelope(ProtocolVersion, 2, HelloFrame(<<"x">>, role, << >>, << >>)) :
        role \in {"game_client", "orchestrator"}}

\* The frames they send: the payloads that make the primary change the hub,
\* naming the request in flight, and an ActionReq.  The peer numbers them by
\* what they carry.
ObserverPayloads ==
    <<[type |-> "Telemetry"], ActionRequest(<<"a">>, <<" ">>), ActionAck(<<"a">>, TRUE, ""),
      ActionAck(<<"a">>, FALSE, ""), ActionResult(<<"a">>, "ok", "")>>

ObserverFrames ==
    {PeerEnvelope(ProtocolVersion, i, ObserverPayloads[i]) : i \in DOMAIN ObserverPayloads}

\* The primary g1 and the orchestrator o1 as sessions of the hub, w1 as a
\* connection that has not sent its Hello.
InitObservers ==
    /\ StartHub({"g1", "o1"}, TRUE, 2, ActionQueueSize, FALSE)
    /\ TelemetryStart(0)
    /\ WireStart({"w1"})
    /\ ActorStart(1, 1, 1)

NextObservers ==
    \/ \E g \in GameSessions : GameHello(g, PrimaryGameAgentId, TRUE)
    \/ \E g \in GameSessions : GameForwardAction(g, TRUE)
    \/ \E o \in OrchSessions : OrchHello(o, TRUE)
    \/ \E o \in OrchSessions : AcquireLoad(o, TRUE)
    \/ \E o \in OrchSessions : AcquireCas(o)
    \/ \E o \in OrchSessions : OrchHandshakeOk(o, TRUE)
    \/ \E o \in OrchSessions : OrchRecvActionReq(o, <<"a">>, <<" ">>)
    \/ \E o \in OrchSessions : EnqueueInsert(o)
    \/ \E o \in OrchSessions : EnqueueSend(o)
    \/ \E s \in WireSessions, first \in ObserverHellos, ok \in BOOLEAN : WireHello(s, first, ok)
    \/ \E s \in WireSessions : WireRecvClose(s)
    \/ \E s \in WireSessions, frame \in ObserverFrames, ok \in BOOLEAN : WireRecv(s, frame, ok)

\* A non-primary game client or a second orchestrator sends its frames while
\* an orchestrator's request is on its way to the primary.
SpecObservers == InitObservers /\ [][NextObservers]_vars

----
\* The orchestrator's SpeechQueue (speech_queue.rs)

MaxJobs == 3
MaxDeadlineMs == 2

\* relay_vars, telemetry_vars and wire_vars: the bridge server, which the
\* orchestrator process does not touch.
bridge_vars == <<relay_vars, telemetry_vars, wire_vars>>

SpeechPriorities == {"P0Safety", "P1ChatReply", "P2Commentary"}

\* queue_max_p0 / p1 / p2, which OrchestratorConfig::validate wants above 0.
QueueCaps == {1, 2}

Deadlines == 1..MaxDeadlineMs
\* The now_ms of a call: before, at and after each deadline.
NowMs == 0..(MaxDeadlineMs + 1)

SpeechJob(job_id, priority, deadline_ms) ==
    [job_id |-> job_id, priority |-> priority, deadline_ms |-> deadline_ms]

NoJob == [job_id |-> 0]

DroppedSpeechJob(job, reason) == [job |-> job, reason |-> reason]

\* queue_and_cap_mut: the sub-queue of a priority and its capacity.
QueueOf(priority) ==
    IF priority = "P0Safety" THEN "p0" ELSE IF priority = "P1ChatReply" THEN "p1" ELSE "p2"
CapOf(q, priority) ==
    IF priority = "P0Safety" THEN q.max_p0
    ELSE IF priority = "P1ChatReply" THEN q.max_p1 ELSE q.max_p2

\* What a SpeechQueue method leaves and returns.
QueueResult(q, dropped, job) == [queue |-> q, dropped |-> dropped, job |-> job]

\* A push that makes room by dropping the newest job of the tier.
PushEvictsNewest(q, job) ==
    LET tier == QueueOf(job.priority)
        old == q[tier]
    IN IF Len(old) >= CapOf(q, job.priority) /\ old # << >>
       THEN QueueResult([q EXCEPT ![tier] = Append(SubSeq(old, 1, Len(old) - 1), job)],
                        << DroppedSpeechJob(old[Len(old)], "queue_overflow") >>, NoJob)
       ELSE QueueResult([q EXCEPT ![tier] = Append(old, job)], << >>, NoJob)

\* SpeechQueue::push: pop_front when the tier holds its capacity, then
\* push_back.
Push(q, job) ==
    LET tier == QueueOf(job.priority)
        old == q[tier]
    IN IF Len(old) >= CapOf(q, job.priority) /\ old # << >>
       THEN QueueResult([q EXCEPT ![tier] = Append(Tail(old), job)],
                        << DroppedSpeechJob(Head(old), "queue_overflow") >>, NoJob)
       ELSE QueueResult([q EXCEPT ![tier] = Append(old, job)], << >>, NoJob)

\* A drain_expired that lets the jobs of every priority expire.
ExpiredAnyPriority(job, now_ms) == job.deadline_ms < now_ms

\* drain_expired: !never_expire && job.deadline_ms < now_ms
Expired(job, now_ms) == job.priority # "P0Safety" /\ job.deadline_ms < now_ms

\* SpeechQueue::drain_expired on one sub-queue: what it keeps and what it
\* appends to out.
DrainExpired(jobs, now_ms) ==
    [keep |-> SelectSeq(jobs, LAMBDA job : ~Expired(job, now_ms)),
     out |-> LET gone == SelectSeq(jobs, LAMBDA job : Expired(job, now_ms))
             IN [i \in DOMAIN gone |-> DroppedSpeechJob(gone[i], "deadline_expired")]]

\* SpeechQueue::drop_expired
DropExpired(q, now_ms) ==
    LET d0 == DrainExpired(q.p0, now_ms)
        d1 == DrainExpired(q.p1, now_ms)
        d2 == DrainExpired(q.p2, now_ms)
    IN QueueResult([q EXCEPT !.p0 = d0.keep, !.p1 = d1.keep, !.p2 = d2.keep],
                   d0.out \o d1.out \o d2.out, NoJob)

\* SpeechQueue::pop_next_from_queue: pop_front until a job may be returned.
RECURSIVE PopNextFromQueue(_, _, _)
PopNextFromQueue(jobs, now_ms, never_expire) ==
    IF jobs = << >> THEN [rest |-> << >>, job |-> NoJob]
    ELSE IF never_expire \/ Head(jobs).deadline_ms >= now_ms
    THEN [rest |-> Tail(jobs), job |-> Head(jobs)]
    ELSE PopNextFromQueue(Tail(jobs), now_ms, never_expire)

\* A pop_next that asks the commentary before the safety lines.
PopNextCommentaryFirst(q, now_ms) ==
    LET r0 == PopNextFromQueue(q.p0, now_ms, TRUE)
        r1 == PopNextFromQueue(q.p1, now_ms, FALSE)
        r2 == PopNextFromQueue(q.p2, now_ms, FALSE)
    IN IF r2.job # NoJob THEN QueueResult([q EXCEPT !.p2 = r2.rest], << >>, r2.job)
       ELSE IF r0.job # NoJob
       THEN QueueResult([q EXCEPT !.p2 = r2.rest, !.p0 = r0.rest], << >>, r0.job)
       ELSE QueueResult([q EXCEPT !.p0 = r0.rest, !.p1 = r1.rest, !.p2 = r2.rest],
                        << >>, r1.job)

\* A pop_next that asks the chat replies before the safety lines.
PopNextChatFirst(q, now_ms) ==
    LET r0 == PopNextFromQueue(q.p0, now_ms, TRUE)
        r1 == PopNextFromQueue(q.p1, now_ms, FALSE)
        r2 == PopNextFromQueue(q.p2, now_ms, FALSE)
    IN IF r1.job # NoJob THEN QueueResult([q EXCEPT !.p1 = r1.rest], << >>, r1.job)
       ELSE IF r0.job # NoJob
       THEN QueueResult([q EXCEPT !.p1 = r1.rest, !.p0 = r0.rest], << >>, r0.job)
       ELSE QueueResult([q EXCEPT !.p0 = r0.rest, !.p1 = r1.rest, !.p2 = r2.rest],
                        << >>, r2.job)

\* SpeechQueue::pop_next: p0, then p1, then p2; a sub-queue is touched only
\* when those before it returned nothing.
PopNext(q, now_ms) ==
    LET r0 == PopNextFromQueue(q.p0, now_ms, TRUE)
        r1 == PopNextFromQueue(q.p1, now_ms, FALSE)
        r2 == PopNextFromQueue(q.p2, now_ms, FALSE)
    IN IF r0.job # NoJob THEN QueueResult([q EXCEPT !.p0 = r0.rest], << >>, r0.job)
       ELSE IF r1.job # NoJob
       THEN QueueResult([q EXCEPT !.p0 = r0.rest, !.p1 = r1.rest], << >>, r1.job)
       ELSE QueueResult([q EXCEPT !.p0 = r0.rest, !.p1 = r1.rest, !.p2 = r2.rest],
                        << >>, r2.job)

SpeechCall(op, job, now_ms, result) ==
    [type |-> op, job |-> job, now_ms |-> now_ms, dropped |-> result.dropped,
     returned |-> result.job]

\* queue.push(job) with a job built for the call.
QueuePush(priority, deadline_ms) ==
    /\ n_jobs < MaxJobs
    /\ n_jobs' = n_jobs + 1
    /\ LET job == SpeechJob(n_jobs + 1, priority, deadline_ms)
           r == Push(queue, job)
       IN /\ queue' = r.queue
          /\ speech_call' = SpeechCall("push", job, 0, r)
    /\ UNCHANGED <<bridge_vars, ledger_vars, state_vars>>

\* queue.drop_expired(now_ms)
QueueDropExpired(now_ms) ==
    /\ LET r == DropExpired(queue, now_ms)
       IN /\ queue' = r.queue
          /\ speech_call' = SpeechCall("drop_expired", NoJob, now_ms, r)
    /\ UNCHANGED <<n_jobs, bridge_vars, ledger_vars, state_vars>>

\* queue.pop_next(now_ms)
QueuePopNext(now_ms) ==
    /\ LET r == PopNext(queue, now_ms)
       IN /\ queue' = r.queue
          /\ speech_call' = SpeechCall("pop_next", NoJob, now_ms, r)
    /\ UNCHANGED <<n_jobs, bridge_vars, ledger_vars, state_vars>>

\* A SpeechQueue of any capacities, empty.
InitSpeechQueue ==
    /\ Start({}, TRUE, 1)
    /\ TelemetryStart(0)
    /\ WireStart({})
    /\ \E max_p0, max_p1, max_p2 \in QueueCaps : ActorStart(max_p0, max_p1, max_p2)

NextSpeechQueue ==
    \/ \E priority \in SpeechPriorities, deadline_ms \in Deadlines :
          QueuePush(priority, deadline_ms)
    \/ \E now_ms \in NowMs : QueueDropExpired(now_ms)
    \/ \E now_ms \in NowMs : QueuePopNext(now_ms)

\* The methods of a SpeechQueue called in any order with any arguments.
SpecSpeechQueue == InitSpeechQueue /\ [][NextSpeechQueue]_vars

----
\* The orchestrator's ActionLedger (action_ledger.rs)

MaxSentMs == 1
MaxTimeoutMs == 2

\* The requests the methods are called for, one of them twice or both at once.
LedgerIds == {1, 2}

\* The times on_sent is called at, the timeouts it is given (validate wants
\* action_ack_timeout_ms and action_result_timeout_ms above 0, in any order)
\* and the times poll_timeouts is called at: up to past every deadline.
SentMs == 0..MaxSentMs
TimeoutsMs == 1..MaxTimeoutMs
PollMs == 0..(MaxSentMs + MaxTimeoutMs + 1)

\* u64::saturating_add. The times and timeouts of the model are far below
\* u64::MAX, where the saturating sum is the sum.
SaturatingAdd(a, b) == a + b

InflightAction(ack_deadline_ms, result_deadline_ms, acked) ==
    [ack_deadline_ms |-> ack_deadline_ms, result_deadline_ms |-> result_deadline_ms, acked |-> acked]

TimeoutEvent(request_id, kind) == [request_id |-> request_id, kind |-> kind]

\* HashMap::insert: the entry under key is v, whatever was there.
Insert(m, key, v) == [k \in DOMAIN m \cup {key} |-> IF k = key THEN v ELSE m[k]]

\* HashMap::remove, once for every key of keys.
Remove(m, keys) == [k \in DOMAIN m \ keys |-> m[k]]

\* on_sent
OnSent(l, request_id, now_ms, ack_timeout_ms, result_timeout_ms) ==
    [l EXCEPT !.inflight =
        Insert(@, request_id,
               InflightAction(SaturatingAdd(now_ms, ack_timeout_ms),
                              SaturatingAdd(now_ms, result_timeout_ms), FALSE))]

\* on_ack that forgets to mark the entry.
OnAckLeavesUnacked(l, request_id, accepted) ==
    IF ~accepted
    THEN [l EXCEPT !.inflight = Remove(@, {request_id})]
    ELSE l

\* on_ack
OnAck(l, request_id, accepted) ==
    IF ~accepted
    THEN [l EXCEPT !.inflight = Remove(@, {request_id})]
    ELSE IF request_id \in DOMAIN l.inflight
         THEN [l EXCEPT !.inflight[request_id].acked = TRUE]
         ELSE l

\* on_result
OnResult(l, request_id) == [l EXCEPT !.inflight = Remove(@, {request_id})]

\* The orders a HashMap's iterator can visit its keys in.
IterOrders(m) ==
    {order \in [1..Cardinality(DOMAIN m) -> DOMAIN m] :
        \A i, j \in DOMAIN order : order[i] = order[j] => i = j}

\* poll_timeouts, the two tests of its loop body in the other order.
TimeoutKindResultFirst(inflight, now_ms) ==
    IF now_ms >= inflight.result_deadline_ms THEN "Result"
    ELSE IF ~inflight.acked /\ now_ms >= inflight.ack_deadline_ms THEN "Ack"
    ELSE "None"

\* poll_timeouts, the body of its loop: what the entry adds to timed_out.
TimeoutKind(inflight, now_ms) ==
    IF ~inflight.acked /\ now_ms >= inflight.ack_deadline_ms THEN "Ack"
    ELSE IF now_ms >= inflight.result_deadline_ms THEN "Result"
    ELSE "None"

\* poll_timeouts with the iterator visiting the keys in order: the ledger it
\* leaves and the Vec it returns.
PollTimeouts(l, now_ms, order) ==
    LET remove_keys == SelectSeq(order, LAMBDA k : TimeoutKind(l.inflight[k], now_ms) # "None")
        timed_out == [i \in 1..Len(remove_keys) |->
                         TimeoutEvent(remove_keys[i], TimeoutKind(l.inflight[remove_keys[i]], now_ms))]
    IN [ledger |-> [l EXCEPT !.inflight = Remove(@, {remove_keys[i] : i \in 1..Len(remove_keys)})],
        timed_out |-> timed_out]

LedgerCall(op, request_id, now_ms, timed_out) ==
    [type |-> op, request_id |-> request_id, now_ms |-> now_ms, timed_out |-> timed_out]

\* The history of a request_id after on_sent(request_id, now_ms, ack_timeout_ms, result_timeout_ms).
Sent(now_ms, ack_timeout_ms, result_timeout_ms) ==
    [phase |-> "sent", now_ms |-> now_ms, ack_timeout_ms |-> ack_timeout_ms,
     result_timeout_ms |-> result_timeout_ms, events |-> 0]

\* The history of a request_id whose entry is gone: how it went, and the timeout
\* events it has had since it was sent.
Closed(phase, events) == [phase |-> phase, events |-> events]

\* The history after a call that closed or acked the entry, if there was one.
Called(hist, in_flight, phase) ==
    IF ~in_flight THEN hist
    ELSE IF phase = "acked" THEN [hist EXCEPT !.phase = phase]
    ELSE Closed(phase, hist.events)

\* The histories after a poll that returned timed_out.
Polled(hist, timed_out) ==
    [request_id \in DOMAIN hist |->
        LET n == Cardinality({i \in DOMAIN timed_out : timed_out[i].request_id = request_id})
        IN IF n = 0 THEN hist[request_id]
           ELSE Closed("timed_out", hist[request_id].events + n)]

\* ledger.on_sent(request_id, now_ms, ack_timeout_ms, result_timeout_ms)
LedgerOnSent(request_id, now_ms, ack_timeout_ms, result_timeout_ms) ==
    /\ ledger' = OnSent(ledger, request_id, now_ms, ack_timeout_ms, result_timeout_ms)
    /\ ledger_call' = LedgerCall("on_sent", request_id, now_ms, << >>)
    /\ ledger_hist' = [ledger_hist EXCEPT ![request_id] = Sent(now_ms, ack_timeout_ms, result_timeout_ms)]
    /\ UNCHANGED <<bridge_vars, queue_vars, state_vars>>

\* ledger.on_ack(request_id, accepted)
LedgerOnAck(request_id, accepted) ==
    /\ ledger' = OnAck(ledger, request_id, accepted)
    /\ ledger_call' = LedgerCall(IF accepted THEN "on_ack" ELSE "on_nack", request_id, 0, << >>)
    /\ ledger_hist' = [ledger_hist EXCEPT ![request_id] =
                          Called(@, request_id \in DOMAIN ledger.inflight,
                                 IF accepted THEN "acked" ELSE "nacked")]
    /\ UNCHANGED <<bridge_vars, queue_vars, state_vars>>

\* ledger.on_result(request_id)
LedgerOnResult(request_id) ==
    /\ ledger' = OnResult(ledger, request_id)
    /\ ledger_call' = LedgerCall("on_result", request_id, 0, << >>)
    /\ ledger_hist' = [ledger_hist EXCEPT ![request_id] =
                          Called(@, request_id \in DOMAIN ledger.inflight, "result")]
    /\ UNCHANGED <<bridge_vars, queue_vars, state_vars>>

\* ledger.poll_timeouts(now_ms)
LedgerPollTimeouts(now_ms, order) ==
    /\ LET r == PollTimeouts(ledger, now_ms, order)
       IN /\ ledger' = r.ledger
          /\ ledger_call' = LedgerCall("poll_timeouts", 0, now_ms, r.timed_out)
          /\ ledger_hist' = Polled(ledger_hist, r.timed_out)
    /\ UNCHANGED <<bridge_vars, queue_vars, state_vars>>

\* An ActionLedger, empty.
InitLedger ==
    /\ Start({}, TRUE, 1)
    /\ TelemetryStart(0)
    /\ WireStart({})
    /\ ActorStart(1, 1, 1)

NextLedger ==
    \/ \E request_id \in LedgerIds, now_ms \in SentMs, ack_timeout_ms, result_timeout_ms \in TimeoutsMs :
          LedgerOnSent(request_id, now_ms, ack_timeout_ms, result_timeout_ms)
    \/ \E request_id \in LedgerIds, accepted \in BOOLEAN : LedgerOnAck(request_id, accepted)
    \/ \E request_id \in LedgerIds : LedgerOnResult(request_id)
    \/ \E now_ms \in PollMs, order \in IterOrders(ledger.inflight) : LedgerPollTimeouts(now_ms, order)

\* The methods of an ActionLedger called in any order with any arguments.
SpecLedger == InitLedger /\ [][NextLedger]_vars

----
\* The orchestrator's StateActor (state_actor.rs)

MaxActorMs == 2
MaxSpeech == 3
MaxHandled == 3

\* state_actor.rs on_tick: the ttl of an emergency STOP_ALL request.
StopAllTtlMs == 1500

\* The readings of now_ms.
ActorMs == 0..MaxActorMs

\* The readings of wall_unix_ms, which only the expiry of a request depends on.
WallMs == {0}

\* The configurations the actor runs under: a P0 tier of capacity 1 or 2, and
\* an ack timeout below or equal to the result timeout.
ActorConfigs ==
    {OrchestratorConfig(max_p0, 1, 1, ack_timeout_ms, MaxTimeoutMs) :
        max_p0 \in QueueCaps, ack_timeout_ms \in TimeoutsMs}

\* A text is the sequence of its words and of the blanks between them.
\* make_telemetry_line, abbreviated to the hp it formats.
TelemetryLine(hp) == <<"hp=", hp, ".", " ", "moving", " ", "with", " ", "caution.">>

\* "Action was rejected. reason={}. switching to safe mode."
RejectedLine(reason) == <<"Action", " ", "was", " ", "rejected.", " ", "reason=">> \o reason

\* "Action result status={:?}. prioritizing safe recovery."
ResultLine(status) == <<"Action", " ", "result", " ", "status=", status>>

\* "Action {} reached {}. sending StopAll."
TimeoutLine(request_id, timeout_label) ==
    <<"Action", " ", ToString(request_id), " ", "reached", " ", timeout_label, ".", " ", "sending", " ", "StopAll.">>

\* on_tick: match timeout.kind
TimeoutLabel(kind) == IF kind = "Ack" THEN "ack_timeout" ELSE "result_timeout"

FillerLine == <<"Planning", " ", "the", " ", "next", " ", "safe", " ", "move">>

\* normalize_dedupe_key: text.split_whitespace().collect::<String>()
NormalizeDedupeKey(text) == SelectSeq(text, LAMBDA c : ~IsWhitespace(c))

\* The SpeechJob enqueue_speech builds.
FullSpeechJob(job_id, text, priority, source, now_ms, deadline_delta_ms) ==
    [job_id |-> job_id, text |-> text, priority |-> priority, source |-> source,
     enqueued_ms |-> now_ms, deadline_ms |-> SaturatingAdd(now_ms, deadline_delta_ms),
     dedupe_key |-> NormalizeDedupeKey(text)]

\* The speech_dropped line of the metrics file.
SpeechDroppedLine(dropped) ==
    [event |-> "speech_dropped", job_id |-> dropped.job.job_id, text |-> dropped.job.text,
     priority |-> dropped.job.priority, source |-> dropped.job.source,
     dropped_reason |-> dropped.reason]

\* subtitle.post_subtitle returned Ok(body): what the gateway answered.
SubtitleBody == [request_id |-> "sub", wrapped |-> "wrapped", visible_chars |-> "chars"]

\* run_pipeline: match subtitle_res, the Err arm.
EmptySubtitle == [request_id |-> "", wrapped |-> "", visible_chars |-> "0"]

\* What the three calls of run_pipeline return: Ok or Err each.
PipelineRuns == [subtitle_ok : BOOLEAN, tts_ok : BOOLEAN, audio_ok : BOOLEAN]

\* No pipeline was run.
NoOutcome == [ok |-> FALSE, error |-> "none"]

\* run_pipeline: a failed post_subtitle is logged only; a failed synthesize or
\* play_or_fallback returns its Err by `?`.
RunPipeline(job, io) ==
    IF ~io.tts_ok THEN [ok |-> FALSE, error |-> "tts"]
    ELSE IF ~io.audio_ok THEN [ok |-> FALSE, error |-> "audio"]
    ELSE [ok |-> TRUE, text |-> job.text,
          subtitle |-> IF io.subtitle_ok THEN SubtitleBody ELSE EmptySubtitle]

\* The speech_pipeline line of the metrics file, without the pipeline's timings.
SpeechPipelineLine(job, outcome, now_ms, spoken_ms) ==
    [event |-> "speech_pipeline", job_id |-> job.job_id, text |-> job.text,
     priority |-> job.priority, source |-> job.source,
     subtitle_request_id |-> outcome.subtitle.request_id,
     subtitle_visible_chars |-> outcome.subtitle.visible_chars,
     subtitle_wrapped |-> outcome.subtitle.wrapped,
     silence_gap_ms |-> SaturatingSub(now_ms, spoken_ms),
     queue_wait_ms |-> SaturatingSub(now_ms, job.enqueued_ms)]

\* action_client::build_stop_all_request, request_id being the fresh UUID.
BuildStopAllRequest(target_agent_id, request_id, now_unix_ms, ttl_ms) ==
    [request_id |-> request_id, action_type |-> "STOP_ALL",
     expires_at_unix_ms |-> SaturatingAdd(now_unix_ms, ttl_ms),
     target_agent_id |-> target_agent_id]

\* What a handler works on: the actor's fields it may change, what it has done
\* so far (jobs pushed, metric lines written, requests handed to the bridge
\* client) and whether a `?` has ended it.
Working ==
    [queue |-> queue, ledger |-> ledger, last_line |-> last_line, last_line_ms |-> last_line_ms,
     last_spoken_ms |-> last_spoken_ms, n_jobs |-> n_jobs, n_actions |-> n_actions,
     timed_out |-> << >>, pushed |-> << >>, lines |-> << >>, sent |-> << >>, spoke |-> NoJob,
     popped |-> NoJob, outcome |-> NoOutcome, failed |-> FALSE]

\* append_metric_line, once for every line of lines in order: metrics_ok tells
\* whether the metrics file can be written during the handler.
AppendMetricLines(a, lines, metrics_ok) ==
    IF lines = << >> THEN a
    ELSE IF metrics_ok THEN [a EXCEPT !.lines = @ \o lines]
    ELSE [a EXCEPT !.failed = TRUE]

\* enqueue_speech that sends no metric for the job a full tier drops.
EnqueueSpeechDropsSilently(a, cfg, text, priority, source, deadline_delta_ms, now_ms, metrics_ok) ==
    LET dedupe_key == NormalizeDedupeKey(text)
    IN IF /\ a.last_line.some
          /\ a.last_line.value = dedupe_key
          /\ SaturatingSub(now_ms, a.last_line_ms) < cfg.duplicate_cooldown_ms
       THEN a
       ELSE LET job == FullSpeechJob(a.n_jobs + 1, text, priority, source, now_ms, deadline_delta_ms)
                r == Push(a.queue, job)
            IN [a EXCEPT !.last_line = Some(dedupe_key), !.last_line_ms = now_ms,
                         !.n_jobs = @ + 1, !.queue = r.queue, !.pushed = Append(@, job)]

\* enqueue_speech that counts the cooldown from the last call with the line,
\* dropped or not.
EnqueueSpeechRestartsCooldown(a, cfg, text, priority, source, deadline_delta_ms, now_ms, metrics_ok) ==
    LET dedupe_key == NormalizeDedupeKey(text)
    IN IF /\ a.last_line.some
          /\ a.last_line.value = dedupe_key
          /\ SaturatingSub(now_ms, a.last_line_ms) < cfg.duplicate_cooldown_ms
       THEN [a EXCEPT !.last_line_ms = now_ms]
       ELSE LET job == FullSpeechJob(a.n_jobs + 1, text, priority, source, now_ms, deadline_delta_ms)
                r == Push(a.queue, job)
                a1 == [a EXCEPT !.last_line = Some(dedupe_key), !.last_line_ms = now_ms,
                                !.n_jobs = @ + 1, !.queue = r.queue, !.pushed = Append(@, job)]
            IN AppendMetricLines(a1, [i \in DOMAIN r.dropped |-> SpeechDroppedLine(r.dropped[i])],
                                 metrics_ok)

\* enqueue_speech
EnqueueSpeech(a, cfg, text, priority, source, deadline_delta_ms, now_ms, metrics_ok) ==
    LET dedupe_key == NormalizeDedupeKey(text)
    IN IF /\ a.last_line.some
          /\ a.last_line.value = dedupe_key
          /\ SaturatingSub(now_ms, a.last_line_ms) < cfg.duplicate_cooldown_ms
       THEN a
       ELSE LET job == FullSpeechJob(a.n_jobs + 1, text, priority, source, now_ms, deadline_delta_ms)
                r == Push(a.queue, job)
                a1 == [a EXCEPT !.last_line = Some(dedupe_key), !.last_line_ms = now_ms,
                                !.n_jobs = @ + 1, !.queue = r.queue, !.pushed = Append(@, job)]
            IN AppendMetricLines(a1, [i \in DOMAIN r.dropped |-> SpeechDroppedLine(r.dropped[i])],
                                 metrics_ok)

\* on_tick, the body of its loop over the timeouts: the safety line, then the
\* STOP_ALL request handed to the bridge client, registered when the send
\* returned Ok.
OnTimeout(a, cfg, timeout, now_ms, wall_ms, send_ok, metrics_ok) ==
    LET line == TimeoutLine(timeout.request_id, TimeoutLabel(timeout.kind))
        a1 == EnqueueSpeech(a, cfg, line, "P0Safety", "ActionSafety", cfg.chat_deadline_ms,
                            now_ms, metrics_ok)
        stop_req == BuildStopAllRequest(cfg.primary_game_agent_id, a1.n_actions + 1,
                                        wall_ms, StopAllTtlMs)
        a2 == [a1 EXCEPT !.n_actions = @ + 1,
                         !.sent = Append(@, [req |-> stop_req, ok |-> send_ok])]
    IN IF a1.failed THEN a1
       ELSE IF ~IsAllowlisted("STOP_ALL") THEN a1
       ELSE IF ~send_ok THEN a2
       ELSE [a2 EXCEPT !.ledger = OnSent(@, stop_req.request_id, now_ms,
                                         cfg.action_ack_timeout_ms,
                                         cfg.action_result_timeout_ms)]

\* on_tick, its loop over the timeouts from the i-th on: a failed
\* enqueue_speech returns from on_tick.
RECURSIVE OnTimeouts(_, _, _, _, _, _, _, _)
OnTimeouts(a, cfg, timed_out, i, now_ms, wall_ms, send_ok, metrics_ok) ==
    IF i > Len(timed_out) \/ a.failed THEN a
    ELSE OnTimeouts(OnTimeout(a, cfg, timed_out[i], now_ms, wall_ms, send_ok[i], metrics_ok),
                    cfg, timed_out, i + 1, now_ms, wall_ms, send_ok, metrics_ok)

\* on_tick after its two loops: the filler line, pop_next and the pipeline.
\* io tells what the calls of run_pipeline return, spoken_ms is the reading of
\* now_ms after it.
SpeakNext(a, cfg, now_ms, spoken_ms, io, metrics_ok) ==
    LET a1 == IF SaturatingSub(now_ms, a.last_spoken_ms) >= cfg.silence_gap_ms
              THEN EnqueueSpeech(a, cfg, FillerLine, "P2Commentary", "Filler",
                                 cfg.filler_deadline_ms, now_ms, metrics_ok)
              ELSE a
        r == PopNext(a1.queue, now_ms)
        a2 == [a1 EXCEPT !.queue = r.queue, !.popped = r.job]
        outcome == RunPipeline(r.job, io)
        a3 == [a2 EXCEPT !.spoke = r.job, !.outcome = outcome, !.last_spoken_ms = spoken_ms]
    IN IF a1.failed THEN a1
       ELSE IF r.job = NoJob THEN a2
       ELSE IF ~outcome.ok THEN [a2 EXCEPT !.outcome = outcome, !.failed = TRUE]
       ELSE AppendMetricLines(a3, <<SpeechPipelineLine(r.job, outcome, now_ms, a.last_spoken_ms)>>,
                              metrics_ok)

\* on_tick that writes no metric for the jobs drop_expired returns.
OnTickExpiresUnreported(a, cfg, now_ms, order, wall_ms, send_ok, spoken_ms, io, metrics_ok) ==
    LET expired == DropExpired(a.queue, now_ms)
        a1 == [a EXCEPT !.queue = expired.queue]
        polled == PollTimeouts(a1.ledger, now_ms, order)
        a2 == OnTimeouts([a1 EXCEPT !.ledger = polled.ledger, !.timed_out = polled.timed_out],
                         cfg, polled.timed_out, 1,
                         now_ms, wall_ms, send_ok, metrics_ok)
    IN IF a2.failed THEN a2
       ELSE SpeakNext(a2, cfg, now_ms, spoken_ms, io, metrics_ok)

\* on_tick as a whole at the reading now_ms.
OnTick(a, cfg, now_ms, order, wall_ms, send_ok, spoken_ms, io, metrics_ok) ==
    LET expired == DropExpired(a.queue, now_ms)
        a1 == AppendMetricLines([a EXCEPT !.queue = expired.queue],
                                [i \in DOMAIN expired.dropped |-> SpeechDroppedLine(expired.dropped[i])],
                                metrics_ok)
        polled == PollTimeouts(a1.ledger, now_ms, order)
        a2 == OnTimeouts([a1 EXCEPT !.ledger = polled.ledger, !.timed_out = polled.timed_out],
                         cfg, polled.timed_out, 1,
                         now_ms, wall_ms, send_ok, metrics_ok)
    IN IF a1.failed THEN a1
       ELSE IF a2.failed THEN a2
       ELSE \* SpeakNext(a2, ...), with a2 computed once
            CHOOSE a3 \in {SpeakNext(after, cfg, now_ms, spoken_ms, io, metrics_ok) :
                              after \in {a2}} : TRUE

\* What the handler did, for the record.
ActorCall(op, now_ms, a) ==
    [type |-> op, now_ms |-> now_ms, timed_out |-> a.timed_out, pushed |-> a.pushed,
     lines |-> a.lines, sent |-> a.sent, spoke |-> a.spoke, popped |-> a.popped,
     outcome |-> a.outcome,
     result |-> IF a.failed THEN "Err" ELSE "Ok"]

\* The handler leaves the actor as a: an Err makes run return.
Handled(a, op, now_ms, end_ms) ==
    /\ n_handled < MaxHandled
    /\ a.n_jobs <= MaxSpeech
    /\ a.n_actions <= MaxActionIds
    /\ n_handled' = n_handled + 1
    /\ queue' = a.queue
    /\ ledger' = a.ledger
    /\ last_line' = a.last_line
    /\ last_line_ms' = a.last_line_ms
    /\ last_spoken_ms' = a.last_spoken_ms
    /\ n_jobs' = a.n_jobs
    /\ n_actions' = a.n_actions
    /\ actor_ms' = end_ms
    /\ actor_pc' = IF a.failed THEN "failed" ELSE "running"
    /\ actor_call' = ActorCall(op, now_ms, a)
    /\ UNCHANGED <<bridge_vars, actor_cfg, speech_call, ledger_call, ledger_hist, bridge>>

\* run: interval.tick() => self.on_tick().await?
ActorTick(now_ms, order, wall_ms, send_ok, spoken_ms, io, metrics_ok) ==
    /\ actor_pc = "running"
    /\ now_ms >= actor_ms
    /\ spoken_ms >= now_ms
    /\ LET a == OnTick(Working, actor_cfg, now_ms, order, wall_ms, send_ok, spoken_ms,
                       io, metrics_ok)
       IN Handled(a, "on_tick", now_ms, IF a.spoke # NoJob THEN spoken_ms ELSE now_ms)

\* run: BridgeEvent::Telemetry(frame)
ActorTelemetry(now_ms, hp, metrics_ok) ==
    /\ actor_pc = "running"
    /\ now_ms >= actor_ms
    /\ LET a == EnqueueSpeech(Working, actor_cfg, TelemetryLine(hp), "P2Commentary", "Telemetry",
                              actor_cfg.chat_deadline_ms, now_ms, metrics_ok)
       IN Handled(a, "telemetry", now_ms, now_ms)

\* run: BridgeEvent::ActionAck(ack)
ActorActionAck(request_id, accepted, now_ms, metrics_ok) ==
    /\ actor_pc = "running"
    /\ IF accepted THEN now_ms = actor_ms ELSE now_ms >= actor_ms
    /\ LET a0 == [Working EXCEPT !.ledger = OnAck(@, request_id, accepted)]
           a == IF accepted THEN a0
                ELSE EnqueueSpeech(a0, actor_cfg, RejectedLine(<<"busy">>), "P0Safety", "ActionSafety",
                                   actor_cfg.chat_deadline_ms, now_ms, metrics_ok)
       IN Handled(a, IF accepted THEN "action_ack" ELSE "action_nack", now_ms, now_ms)

\* An ActionResult arm that speaks of every result, ok or not.
ActorActionResultAlwaysSpeaks(request_id, status, now_ms, metrics_ok) ==
    /\ actor_pc = "running"
    /\ IF status = "ActionStatusOk" THEN now_ms = actor_ms ELSE now_ms >= actor_ms
    /\ LET a0 == [Working EXCEPT !.ledger = OnResult(@, request_id)]
           a == EnqueueSpeech(a0, actor_cfg, ResultLine(status), "P0Safety", "ActionSafety",
                              actor_cfg.chat_deadline_ms, now_ms, metrics_ok)
       IN Handled(a, "action_result", now_ms, now_ms)

\* run: BridgeEvent::ActionResult(result)
ActorActionResult(request_id, status, now_ms, metrics_ok) ==
    /\ actor_pc = "running"
    /\ IF status = "ActionStatusOk" THEN now_ms = actor_ms ELSE now_ms >= actor_ms
    /\ LET a0 == [Working EXCEPT !.ledger = OnResult(@, request_id)]
           a == IF status = "ActionStatusOk" THEN a0
                ELSE EnqueueSpeech(a0, actor_cfg, ResultLine(status), "P0Safety", "ActionSafety",
                                   actor_cfg.chat_deadline_ms, now_ms, metrics_ok)
       IN Handled(a, "action_result", now_ms, now_ms)

\* run: BridgeEvent::Closed breaks the loop (Ok); an Err of next_event returns.
ActorClosed(ok) ==
    /\ actor_pc = "running"
    /\ n_handled < MaxHandled
    /\ n_handled' = n_handled + 1
    /\ actor_pc' = IF ok THEN "closed" ELSE "failed"
    /\ actor_call' = [type |-> "closed", result |-> IF ok THEN "Ok" ELSE "Err"]
    /\ UNCHANGED <<bridge_vars, queue_vars, ledger_vars, actor_cfg, actor_ms, last_spoken_ms,
                   last_line, last_line_ms, n_actions, bridge>>

\* The orchestrator issues an action: it builds a request with a fresh
\* request_id, sends it through the bridge client and registers it in the
\* ledger with the configured timeouts.
ActorIssueAction(now_ms) ==
    /\ actor_pc = "running"
    /\ now_ms >= actor_ms
    /\ LET a == [Working EXCEPT !.n_actions = @ + 1,
                                !.ledger = OnSent(@, n_actions + 1, now_ms,
                                                  actor_cfg.action_ack_timeout_ms,
                                                  actor_cfg.action_result_timeout_ms)]
       IN Handled(a, "issue_action", now_ms, now_ms)

\* A StateActor under any of the configurations.
InitStateActor ==
    /\ Start({}, TRUE, 1)
    /\ TelemetryStart(0)
    /\ WireStart({})
    /\ \E cfg \in ActorConfigs : StateActorNew(cfg)

NextStateActor ==
    \/ \E now_ms \in ActorMs, order \in IterOrders(ledger.inflight), wall_ms \in WallMs,
          send_ok \in [1..Cardinality(DOMAIN ledger.inflight) -> BOOLEAN],
          spoken_ms \in ActorMs, io \in PipelineRuns, metrics_ok \in BOOLEAN :
          ActorTick(now_ms, order, wall_ms, send_ok, spoken_ms, io, metrics_ok)
    \/ \E now_ms \in ActorMs, hp \in {"20"}, metrics_ok \in BOOLEAN :
          ActorTelemetry(now_ms, hp, metrics_ok)
    \/ \E request_id \in ActionIds, accepted \in BOOLEAN, now_ms \in ActorMs, metrics_ok \in BOOLEAN :
          ActorActionAck(request_id, accepted, now_ms, metrics_ok)
    \/ \E request_id \in ActionIds, status \in {"ActionStatusOk", "ActionStatusFailed"},
          now_ms \in ActorMs, metrics_ok \in BOOLEAN :
          ActorActionResult(request_id, status, now_ms, metrics_ok)
    \/ \E ok \in BOOLEAN : ActorClosed(ok)
    \/ \E now_ms \in ActorMs : ActorIssueAction(now_ms)

\* The handlers of StateActor::run in any order, with any outcome of the I/O
\* they do.
SpecStateActor == InitStateActor /\ [][NextStateActor]_vars

----
\* StateActor::enqueue_speech called with any line (state_actor.rs)

MaxCooldownMs == 2

\* duplicate_cooldown_ms, which validate does not constrain.
CooldownsMs == 0..MaxCooldownMs

\* The texts of the lines, character by character: two that differ in their
\* whitespace only, and another one.
Texts == {<<"a", "b">>, <<"a", " ", "b">>, <<"b", "\t">>}

\* The priority and source of the lines: the pairs the handlers of run use.
LineKinds == {<<"P0Safety", "ActionSafety">>, <<"P2Commentary", "Telemetry">>,
              <<"P2Commentary", "Filler">>}

\* self.enqueue_speech(text, priority, source, deadline_delta_ms, now_ms)? in a
\* handler of run at the reading now_ms.
ActorEnqueueSpeech(text, priority, source, deadline_delta_ms, now_ms, metrics_ok) ==
    /\ actor_pc = "running"
    /\ now_ms >= actor_ms
    /\ n_handled < MaxHandled
    /\ n_handled' = n_handled + 1
    /\ LET a == EnqueueSpeech(Working, actor_cfg, text, priority, source, deadline_delta_ms,
                              now_ms, metrics_ok)
       IN /\ queue' = a.queue
          /\ last_line' = a.last_line
          /\ last_line_ms' = a.last_line_ms
          /\ n_jobs' = a.n_jobs
          /\ actor_pc' = IF a.failed THEN "failed" ELSE "running"
          /\ actor_call' = [type |-> "enqueue_speech", text |-> text, priority |-> priority,
                            source |-> source, deadline_delta_ms |-> deadline_delta_ms,
                            now_ms |-> now_ms, pushed |-> a.pushed, lines |-> a.lines,
                            result |-> IF a.failed THEN "Err" ELSE "Ok"]
    /\ actor_ms' = now_ms
    /\ UNCHANGED <<bridge_vars, ledger_vars, actor_cfg, speech_call, last_spoken_ms, n_actions,
                   bridge>>

\* A StateActor with any duplicate_cooldown_ms, a P0 tier of capacity 2 and
\* the other tiers of capacity 1.
InitDedupe ==
    /\ Start({}, TRUE, 1)
    /\ TelemetryStart(0)
    /\ WireStart({})
    /\ \E cooldown_ms \in CooldownsMs :
          StateActorNew([OrchestratorConfig(2, 1, 1, 1, 2)
                            EXCEPT !.duplicate_cooldown_ms = cooldown_ms])

NextDedupe ==
    \/ \E text \in Texts, kind \in LineKinds, now_ms \in ActorMs, metrics_ok \in BOOLEAN :
          ActorEnqueueSpeech(text, kind[1], kind[2], actor_cfg.chat_deadline_ms, now_ms, metrics_ok)

\* enqueue_speech called with any line at any time.
SpecDedupe == InitDedupe /\ [][NextDedupe]_vars

----
\* BridgeClient::connect: send_hello and wait_for_handshake (bridge_client.rs)

MaxClientMsgs == 3

\* wait_for_handshake: tokio::time::sleep(Duration::from_secs(5)), in ms.
HandshakeTimeoutMs == 5000

\* The times at which something happens during the wait.
ClientClock == {0, HandshakeTimeoutMs \div 2, HandshakeTimeoutMs, HandshakeTimeoutMs * 2}

\* send_hello: the Hello of the orchestrator.
ClientHello ==
    HelloFrame(<<"o">>, "orchestrator",
               <<"CAP_TELEMETRY_V1", "CAP_TIMESYNC_V1", "CAP_HELLO_ACK_V1">>, <<"h">>)

\* The payloads a bridge may answer with.
ServerPayloads ==
    {HelloAck(<<"s">>, TRUE, "ok", <<"CAP_HELLO_ACK_V1">>),
     HelloAck(<<"s">>, FALSE, "orchestrator subscription limit reached", << >>),
     HelloFrame(<<"bridge">>, "bridge_server", LegacyCapabilities, <<"s">>),
     ErrorFrame("unauthorized", "role not allowed", "handshake"),
     [type |-> "Telemetry"], [type |-> "Heartbeat"], NoFrame}

\* What ws.next() may yield during the wait: the end of the stream, a read
\* error, a message that is not binary, or a binary message with its bytes.
ClientMessages ==
    {[kind |-> k] : k \in {"end", "read_error", "ping", "text", "close"}}
    \cup {[kind |-> "binary", data |-> [kind |-> "undecodable"]]}
    \cup {[kind |-> "binary", data |-> PeerEnvelope(v, q, pl)] :
             v \in {ProtocolVersion, ProtocolVersion + 1}, q \in {1, 2}, pl \in ServerPayloads}

\* connect returns an Err.
ClientFail(client, error) == [client EXCEPT !.pc = "failed", !.result = error]

\* connect returns Ok(client).
ClientDone(client) == [client EXCEPT !.pc = "connected", !.result = "Ok"]

\* bridge_client.rs decode_envelope: Envelope::decode, then the test of
\* protocol_version.
ClientDecodeEnvelope(msg) ==
    IF msg.data.kind = "undecodable" THEN [ok |-> FALSE, error |-> "decode envelope"]
    ELSE IF msg.data.protocol_version # ProtocolVersion
    THEN [ok |-> FALSE, error |-> "protocol_version mismatch"]
    ELSE [ok |-> TRUE, env |-> msg.data]

\* wait_for_handshake that takes any HelloAck for an acceptance.
WaitForHandshakeAnyAck(client, msg) ==
    LET got == [client EXCEPT !.n_msgs = @ + 1]
        r == ClientDecodeEnvelope(msg)
        seen == [got EXCEPT !.last_peer_seq = r.env.seq]
    IN IF msg.kind = "end" THEN ClientFail(got, "bridge closed before handshake")
       ELSE IF msg.kind = "read_error" THEN ClientFail(got, "ws read during handshake")
       ELSE IF msg.kind # "binary" THEN got
       ELSE IF ~r.ok THEN ClientFail(got, r.error)
       ELSE IF r.env.payload.type = "HelloAck" THEN ClientDone(seen)
       ELSE IF r.env.payload.type = "Hello" THEN ClientDone(seen)
       ELSE IF r.env.payload.type = "Error"
       THEN ClientFail(seen, "bridge error during handshake")
       ELSE seen

\* wait_for_handshake, the ws.next() arm of its select on what it yielded.
WaitForHandshake(client, msg) ==
    LET got == [client EXCEPT !.n_msgs = @ + 1]
        r == ClientDecodeEnvelope(msg)
        seen == [got EXCEPT !.last_peer_seq = r.env.seq]
    IN IF msg.kind = "end" THEN ClientFail(got, "bridge closed before handshake")
       ELSE IF msg.kind = "read_error" THEN ClientFail(got, "ws read during handshake")
       ELSE IF msg.kind # "binary" THEN got
       ELSE IF ~r.ok THEN ClientFail(got, r.error)
       ELSE IF r.env.payload.type = "HelloAck"
       THEN IF ~r.env.payload.accepted
            THEN ClientFail(seen, "bridge rejected handshake")
            ELSE ClientDone(seen)
       ELSE IF r.env.payload.type = "Hello" THEN ClientDone(seen)
       ELSE IF r.env.payload.type = "Error"
       THEN ClientFail(seen, "bridge error during handshake")
       ELSE seen

client_rest == <<bridge_vars, queue_vars, ledger_vars, actor_cfg, actor_pc, actor_ms, last_spoken_ms,
                 last_line, last_line_ms, n_actions, n_handled, actor_call>>

\* connect: client.send_hello(agent_id, client_version).await?
ClientSendHello(ok) ==
    /\ bridge.pc = "send_hello"
    /\ bridge' = [bridge EXCEPT !.seq = @ + 1, !.sent = ClientHello,
                                !.pc = IF ok THEN "wait" ELSE "failed",
                                !.result = IF ok THEN "none" ELSE "ws send"]
    /\ UNCHANGED client_rest

\* Time passes while wait_for_handshake waits.
ClientTimePasses(ms) ==
    /\ bridge.pc = "wait"
    /\ ms > bridge.waited_ms
    /\ bridge' = [bridge EXCEPT !.waited_ms = ms]
    /\ UNCHANGED client_rest

\* wait_for_handshake: ws.next() yields msg before the timer has fired, or as
\* it fires (select! then takes either arm).
ClientRecv(msg) ==
    /\ bridge.pc = "wait"
    /\ bridge.n_msgs < MaxClientMsgs
    /\ bridge.waited_ms <= HandshakeTimeoutMs
    /\ bridge' = WaitForHandshake(bridge, msg)
    /\ UNCHANGED client_rest

\* wait_for_handshake: the timer arm of its select.
ClientTimeout ==
    /\ bridge.pc = "wait"
    /\ bridge.waited_ms >= HandshakeTimeoutMs
    /\ bridge' = ClientFail(bridge, "bridge hello handshake timeout")
    /\ UNCHANGED client_rest

\* A BridgeClient built by connect, before its Hello.
InitConnect ==
    /\ Start({}, TRUE, 1)
    /\ TelemetryStart(0)
    /\ WireStart({})
    /\ StateActorFields(OrchestratorConfig(1, 1, 1, 1, 2))
    /\ bridge = NewBridgeClient

NextConnect ==
    \/ \E ok \in BOOLEAN : ClientSendHello(ok)
    \/ \E ms \in ClientClock : ClientTimePasses(ms)
    \/ \E msg \in ClientMessages : ClientRecv(msg)
    \/ ClientTimeout

\* BridgeClient::connect from its Hello to its return.
SpecConnect == InitConnect /\ [][NextConnect]_vars

----
\* StateActor::run with its interval ticking for ever (state_actor.rs)

\* run_pipeline returns Ok: TTS and audio succeed, the subtitle post may fail.
PipelineSucceeds == {io \in PipelineRuns : io.tts_ok /\ io.audio_ok}

\* run: interval.tick() => self.on_tick().await?, any number of times.  The
\* readings of now_ms stop at MaxActorMs; the ticks do not.
ActorTickForever(now_ms, spoken_ms, io, metrics_ok) ==
    /\ actor_pc = "running"
    /\ now_ms >= actor_ms
    /\ spoken_ms >= now_ms
    /\ \E a \in {OnTick(Working, actor_cfg, now_ms, << >>, 0, << >>, spoken_ms, io, metrics_ok)} :
          /\ queue' = a.queue
          /\ ledger' = a.ledger
          /\ last_line' = a.last_line
          /\ last_line_ms' = a.last_line_ms
          /\ last_spoken_ms' = a.last_spoken_ms
          /\ n_jobs' = a.n_jobs
          /\ n_actions' = a.n_actions
          /\ actor_ms' = IF a.spoke # NoJob THEN spoken_ms ELSE now_ms
          /\ actor_pc' = IF a.failed THEN "failed" ELSE "running"
          /\ actor_call' = ActorCall("on_tick", now_ms, a)
    /\ UNCHANGED <<bridge_vars, actor_cfg, speech_call, ledger_call, ledger_hist, bridge, n_handled>>

\* A StateActor with a P0 tier of capacity 1 or 2 and no action in flight.
InitTicks ==
    /\ Start({}, TRUE, 1)
    /\ TelemetryStart(0)
    /\ WireStart({})
    /\ \E max_p0 \in QueueCaps : ActorStart(max_p0, 1, 1)

NextTicks ==
    \/ \E now_ms \in ActorMs, spoken_ms \in ActorMs, io \in PipelineSucceeds, metrics_ok \in BOOLEAN :
          ActorTickForever(now_ms, spoken_ms, io, metrics_ok)
    \/ \E now_ms \in ActorMs, metrics_ok \in BOOLEAN : ActorTelemetry(now_ms, "20", metrics_ok)
    \/ \E request_id \in ActionIds, now_ms \in ActorMs, metrics_ok \in BOOLEAN :
          ActorActionAck(request_id, FALSE, now_ms, metrics_ok)
    \/ \E request_id \in ActionIds, now_ms \in ActorMs, metrics_ok \in BOOLEAN :
          ActorActionResult(request_id, "ActionStatusFailed", now_ms, metrics_ok)

\* tokio's interval keeps firing while run is in its loop.
TicksKeepOccurring ==
    WF_vars(\E now_ms \in ActorMs, spoken_ms \in ActorMs, io \in PipelineSucceeds,
               metrics_ok \in BOOLEAN : ActorTickForever(now_ms, spoken_ms, io, metrics_ok))

\* Bridge events that enqueue safety lines and commentary, up to MaxHandled of
\* them, between ticks that go on for ever and whose pipelines succeed.
SpecTicks == InitTicks /\ [][NextTicks]_vars /\ TicksKeepOccurring

----
\* Properties

\* A terminal frame: an ActionAck with accepted = false or an ActionResult.
IsTerminal(f) == f.type = "ActionRes" \/ (f.type = "ActionAck" /\ ~f.accepted)

\* A frame fail_all_pending synthesised.
IsSynthesised(f) ==
    \/ f.type = "ActionAck" /\ f.reason = DisconnectReason
    \/ f.type = "ActionRes" /\ f.detail = DisconnectReason

\* How many frames of h that are about request r satisfy P.
Count(h, r, P(_)) ==
    Cardinality({i \in DOMAIN h : h[i].request_id = r /\ P(h[i])})

PeerTerminal(f) == IsTerminal(f) /\ ~IsSynthesised(f)
SynthesisedTerminal(f) == IsTerminal(f) /\ IsSynthesised(f)

\* C1 as stated: for every request_id inserted into pending_actions the
\* issuing orchestrator's reply channel receives at most one terminal frame
\* for each insertion.
C1_AtMostOneTerminalFrame ==
    \A o \in OrchSessions, r \in RequestIds :
        Count(reply_hist[o], r, IsTerminal) <= n_inserted[o][r]

\* C1, amended: the reply channel of the issuing orchestrator receives at most
\* one terminal frame from route_action_ack / route_action_result for every
\* insertion that no detach cancelled, and for every entry a detach
\* cancelled the two terminal frames fail_all_pending synthesises, the
\* rejecting ack and the timeout result, and no more.
C1_TerminalFramesPerInsertion ==
    \A o \in OrchSessions, r \in RequestIds :
        /\ n_cancelled[o][r] <= n_inserted[o][r]
        /\ Count(reply_hist[o], r, PeerTerminal) <= n_inserted[o][r] - n_cancelled[o][r]
        /\ Count(reply_hist[o], r, SynthesisedTerminal) <= 2 * n_cancelled[o][r]

\* A request inserted once whose issuer was sent two terminal frames.
C1_Witness ==
    \E o \in OrchSessions, r \in RequestIds :
        /\ n_inserted[o][r] = 1
        /\ Count(reply_hist[o], r, IsTerminal) = 2

\* The game sessions that are attached as the primary.
AttachedPrimary(g) ==
    is_primary_game[g] /\ pc[g] \in {"loop", "route_ack_send", "route_result_send"}

C2_OneHolder ==
    /\ \A g \in GameSessions : AttachedPrimary(g) => primary_game_sender = g
    /\ \A agent \in AgentIds :
          (agent # PrimaryGameAgentId \/ primary_game_sender # NoSender)
             => AttachPrimaryGameSender(agent) # "ok"

C2_FailedAttach ==
    \A g \in GameSessions :
        (pc[g] = "hello" /\ pc'[g] # "hello") =>
            /\ agent_id'[g] # PrimaryGameAgentId =>
                  /\ primary_game_sender' = primary_game_sender
                  /\ ~is_primary_game'[g]
            /\ (agent_id'[g] = PrimaryGameAgentId /\ primary_game_sender # NoSender) =>
                  /\ primary_game_sender' = primary_game_sender
                  /\ pending_actions' = pending_actions
                  /\ ~is_primary_game'[g]
                  /\ pc'[g] = "done"
                  /\ handshake'[g] \in
                        {NoFrame, HandshakeReject("primary game sender is unavailable")}

\* C2: every session attached as the primary is the one in the slot, so at
\* most one is; the attach fails for another agent id and for an occupied
\* slot and then leaves the slot as it was; a game client with the primary
\* agent id that arrives while the slot is occupied is rejected with reason
\* "primary game sender is unavailable", and its rejection changes neither
\* the slot nor pending_actions.
C2_SinglePrimary == []C2_OneHolder /\ [][C2_FailedAttach]_vars

\* A second primary client was rejected while the first is attached.
C2_Witness ==
    /\ AttachedPrimary("g1")
    /\ primary_game_sender = "g1"
    /\ handshake["g2"] = HandshakeReject("primary game sender is unavailable")
    /\ pc["g2"] = "done"

\* C3 as stated: when a session that attached itself as the primary has
\* ended, the slot no longer holds its sender.
C3_SlotClearedOnExit ==
    \A g \in GameSessions :
        (is_primary_game[g] /\ pc[g] = "done") => primary_game_sender # g

\* The OrchestratorSlot values alive.
LiveSlots == {o \in OrchSessions : has_slot[o]}

C4_CountIsLiveSlots ==
    /\ orchestrator_count >= 0
    /\ orchestrator_count <= max_orchestrator_subscribers
    /\ orchestrator_count = Cardinality(LiveSlots)

C4_FailedAcquire ==
    \A o \in OrchSessions :
        (pc[o] \in {"hello", "acquire_load"} /\ pc'[o] = "done") =>
            /\ orchestrator_count' = orchestrator_count
            /\ ~has_slot'[o]
            /\ ~allow_orchestrator_subscribe
                  \/ orchestrator_count >= max_orchestrator_subscribers

\* C4: under every interleaving of acquires and drops orchestrator_count
\* stays within 0 .. max_orchestrator_subscribers and equals the number of
\* live OrchestratorSlot values, and an acquire that fails, NotAllowed or
\* LimitReached, leaves the counter unchanged.
C4_CounterWithinCap == []C4_CountIsLiveSlots /\ [][C4_FailedAcquire]_vars

\* One orchestrator holds the only slot and the other was refused it.
C4_Witness ==
    /\ has_slot["o1"]
    /\ orchestrator_count = max_orchestrator_subscribers
    /\ handshake["o2"] = HandshakeReject("orchestrator subscription limit reached")

\* The orchestrator sessions that were admitted and have not ended.
AdmittedSessions ==
    {o \in OrchSessions :
        pc[o] \in {"handshake", "loop", "enqueue_insert", "enqueue_send",
                   "enqueue_failed", "nack"}}

\* C5: every admitted orchestrator session gives its slot back exactly once
\* when it ends, whatever path it ends on, so the counter is the number of
\* admitted sessions that have not ended, and when they all have ended it
\* is 0 again and below the cap.
C5_SlotReleasedOnExit ==
    /\ orchestrator_count = Cardinality(AdmittedSessions)
    /\ \A o \in OrchSessions : pc[o] = "done" => ~has_slot[o]

\* The cap was reached, the admitted session ended, and the next
\* orchestrator was admitted.
C5_Witness ==
    /\ pc["o1"] = "done"
    /\ handshake["o1"] = HandshakeOk
    /\ handshake["o2"] = HandshakeOk
    /\ has_slot["o2"]
    /\ orchestrator_count = max_orchestrator_subscribers


SynthAck(f) == f = ActionAck(f.request_id, FALSE, DisconnectReason)
SynthRes(f) == f = ActionResult(f.request_id, "timeout", DisconnectReason)

IsPrefix(p, h) == Len(p) <= Len(h) /\ SubSeq(h, 1, Len(p)) = p

\* fail_all_pending of some session still has a frame to send to o.
CancellationInProgress(o) ==
    \E g \in GameSessions : \E i \in DOMAIN drained[g] : drained[g][i].reply_tx = o

\* C6: a detaching session has cleared the slot before it drains; for every
\* entry it drained the entry's reply channel is sent the synthesised
\* ActionAck{accepted=false, "primary game client disconnected"} and then the
\* synthesised ActionResult{timeout} of the same request_id, never the result
\* before the ack; a connected orchestrator has been sent both for each of its
\* cancelled entries once the detach has sent its frames, and what its peer is
\* forwarded is what its channel was sent, in that order.
C6_DetachFailsPending ==
    /\ \A g \in GameSessions :
          pc[g] \in {"fail_all_pending", "fail_all_send"} => primary_game_sender # g
    /\ \A o \in OrchSessions :
          /\ IsPrefix(relayed[o], reply_hist[o])
          /\ \A r \in RequestIds :
                /\ Count(reply_hist[o], r, SynthAck) <= n_cancelled[o][r]
                /\ \A k \in DOMAIN reply_hist[o] :
                      Count(SubSeq(reply_hist[o], 1, k), r, SynthRes)
                         <= Count(SubSeq(reply_hist[o], 1, k), r, SynthAck)
                /\ (reply_rx_alive[o] /\ ~CancellationInProgress(o)) =>
                      /\ Count(reply_hist[o], r, SynthAck) = n_cancelled[o][r]
                      /\ Count(reply_hist[o], r, SynthRes) = n_cancelled[o][r]

\* An orchestrator's peer was forwarded the synthesised ack and then the
\* synthesised result of its request.
C6_Witness ==
    \E o \in OrchSessions, r \in RequestIds :
        /\ primary_game_sender = NoSender
        /\ relayed[o] = << ActionAck(r, FALSE, DisconnectReason),
                           ActionResult(r, "timeout", DisconnectReason) >>

\* A detach_primary_game_sender call has returned.
DetachReturned == \E g \in GameSessions : is_primary_game[g] /\ pc[g] = "done"

\* No detach and no enqueue_action call is in progress.
HubQuiet ==
    /\ \A g \in GameSessions : pc[g] \notin {"fail_all_pending", "fail_all_send"}
    /\ \A o \in OrchSessions :
          pc[o] \notin {"enqueue_insert", "enqueue_send", "enqueue_failed"}

\* C7 as stated: once a detach has returned and no enqueue_action call is in
\* progress, pending_actions is empty while no primary is attached.
C7_DetachEmptiesPending ==
    (DetachReturned /\ HubQuiet /\ primary_game_sender = NoSender)
       => pending_actions = EmptyPending

Registered(r) == \E o \in OrchSessions : n_inserted[o][r] >= 1

FramesAbout(h, r) == SelectSeq(h, LAMBDA f : f.request_id = r)

\* The frame some route_action_ack / route_action_result call is about to send
\* to o about r.
RouteInProgress(o, r) ==
    LET G == {g \in GameSessions :
                 /\ route[g] # NoCall
                 /\ route[g].reply_tx = o
                 /\ route[g].frame.request_id = r}
    IN IF G = {} THEN << >> ELSE << route[CHOOSE g \in G : TRUE].frame >>

\* Request r was registered once, by o, and no detach cancelled it.
IssuedOnce(o, r) ==
    /\ n_inserted[o][r] = 1
    /\ \A p \in OrchSessions \ {o} : n_inserted[p][r] = 0
    /\ n_cancelled[o][r] = 0

\* C9: for a request registered once by a connected orchestrator and not
\* cancelled by a detach, the frames about it that the orchestrator's peer was
\* forwarded, followed by those waiting in its reply channel and the one being
\* routed, are exactly the primary's answers in the order the primary gave
\* them, no other orchestrator is sent any of them, an accepting ack leaves the
\* entry in place, and after the result pending_actions has no entry for it.
C9_HappyActionPath ==
    \A o \in OrchSessions, r \in RequestIds :
        (IssuedOnce(o, r) /\ reply_rx_alive[o]) =>
            /\ FramesAbout(relayed[o] \o reply_chan[o], r) \o RouteInProgress(o, r)
                  = FramesAbout(routed, r)
            /\ \A p \in OrchSessions \ {o} : FramesAbout(reply_hist[p], r) = << >>
            /\ "enqueue_action" \notin removed_by[r] =>
                  (r \in DOMAIN pending_actions
                      <=> Count(routed, r, IsTerminal) = 0)

\* With both orchestrators connected, the peer of the first was forwarded the
\* accepting ack and then the result of its request, the other nothing.
C9_Witness ==
    /\ primary_game_sender = "g1"
    /\ pc["o1"] = "loop" /\ pc["o2"] = "loop"
    /\ relayed["o1"] = << ActionAck(<<"a">>, TRUE, ""), ActionResult(<<"a">>, "ok", "") >>
    /\ n_inserted["o2"][<<"a">>] = 0
    /\ <<"a">> \notin DOMAIN pending_actions

\* An ActionReq was received and enqueue_action has bailed before its insert.
ValidationFailed(o) == pc[o] = "loop" /\ pc'[o] = "nack"
\* An ActionReq was received and enqueue_action has passed its checks.
ValidationPassed(o) == pc[o] = "loop" /\ pc'[o] = "enqueue_insert"
\* The send into the primary's channel has failed.
SendFailed(o) == pc[o] = "enqueue_send" /\ pc'[o] = "enqueue_failed"
\* enqueue_action has returned its error after a failed send.
FailedSendReturned(o) == pc[o] = "enqueue_failed" /\ pc'[o] = "nack"

\* C10 as stated: a request with a blank request_id, with a non-empty
\* target_agent_id other than the primary's, or with no primary attached
\* fails without an insert; a failed send removes the entry and delivers
\* nothing; after any failed call pending_actions has no entry for the
\* request_id.
C10_FailedEnqueueLeavesNoEntry ==
    [][\A o \in OrchSessions :
          /\ (ValidationFailed(o) \/ ValidationPassed(o)) =>
                LET req == enq'[o].req IN
                   (\/ IsBlank(req.request_id)
                    \/ req.target_agent_id # << >>
                         /\ req.target_agent_id # PrimaryGameAgentId
                    \/ primary_game_sender = NoSender)
                      => (ValidationFailed(o) /\ pending_actions' = pending_actions)
          /\ SendFailed(o) => action_chan' = action_chan
          /\ (ValidationFailed(o) \/ FailedSendReturned(o)) =>
                enq'[o].req.request_id \notin DOMAIN pending_actions'
      ]_vars

\* C10, amended: enqueue_action fails before its insert, and leaves
\* pending_actions as it was, exactly when the request_id is blank after
\* trimming, or the target_agent_id is not blank after trimming and differs
\* from the primary's agent id, or no primary is attached; a send that fails,
\* on a closed channel or on the timeout, delivers nothing, and when the call
\* returns the entry of the request_id is removed.
C10_EnqueueFailures ==
    [][\A o \in OrchSessions :
          /\ (ValidationFailed(o) \/ ValidationPassed(o)) =>
                LET req == enq'[o].req IN
                   /\ ValidationFailed(o) <=>
                         \/ Trim(req.request_id) = << >>
                         \/ Trim(req.target_agent_id) # << >>
                              /\ req.target_agent_id # PrimaryGameAgentId
                         \/ primary_game_sender = NoSender
                   /\ ValidationFailed(o) => pending_actions' = pending_actions
          /\ SendFailed(o) =>
                /\ action_chan' = action_chan
                /\ enq'[o].result \in {"primary game action queue closed",
                                       "action enqueue timeout"}
          /\ FailedSendReturned(o) =>
                enq'[o].req.request_id \notin DOMAIN pending_actions'
      ]_vars

\* A send into a full channel has timed out and the call has removed its
\* entry.
C10_Witness ==
    \E o \in OrchSessions :
        /\ pc[o] = "nack"
        /\ enq[o].result = "action enqueue timeout"
        /\ enq[o].req.request_id \notin DOMAIN pending_actions

\* A route_action_ack call's locked part, taken by g in this step: the ack's
\* request is pending, the sender picked is the entry's, and the entry stays
\* for an accepting ack and goes for a rejecting one, all others untouched.
C11_LockedPart(g) ==
    (pc[g] = "loop" /\ pc'[g] = "route_ack_send") =>
        LET ack == route'[g].frame
            r == ack.request_id
        IN /\ ack.type = "ActionAck"
           /\ r \in DOMAIN pending_actions
           /\ route'[g].reply_tx = pending_actions[r]
           /\ ack.accepted => pending_actions' = pending_actions
           /\ ~ack.accepted =>
                 /\ r \notin DOMAIN pending_actions'
                 /\ DOMAIN pending_actions' = DOMAIN pending_actions \ {r}
                 /\ \A q \in DOMAIN pending_actions' : pending_actions'[q] = pending_actions[q]
           /\ reply_chan' = reply_chan

\* A route_action_ack call's send, finished by g in this step: the ack is
\* appended to the reply channel picked and pending_actions stays, or the
\* channel is closed, nothing is appended and the request has no entry left.
C11_SendPart(g) ==
    (pc[g] = "route_ack_send" /\ pc'[g] = "loop") =>
        LET tx == route[g].reply_tx
            ack == route[g].frame
        IN IF reply_rx_alive[tx]
           THEN /\ reply_chan' = [reply_chan EXCEPT ![tx] = Append(@, ack)]
                /\ pending_actions' = pending_actions
           ELSE /\ reply_chan' = reply_chan
                /\ ack.request_id \notin DOMAIN pending_actions'

\* C11: route_action_ack forwards the ack of a pending request to the entry's
\* reply channel, keeping the entry when accepted and removing it when not; a
\* closed reply channel removes the entry; and an ack whose request is not
\* pending is forwarded to nobody: every peer ack a reply channel ever carried
\* is about a request its orchestrator registered.
C11_RouteActionAck ==
    /\ [][\A g \in GameSessions : C11_LockedPart(g) /\ C11_SendPart(g)]_vars
    /\ [](\A o \in OrchSessions : \A i \in 1..Len(reply_hist[o]) :
              LET f == reply_hist[o][i] IN
              (f.type = "ActionAck" /\ ~IsSynthesised(f)) => n_inserted[o][f.request_id] >= 1)

\* An accepting ack was forwarded to the orchestrator whose entry is still
\* pending, after an earlier ack for the same id met a closed reply channel.
C11_Witness ==
    \E o \in OrchSessions, r \in RequestIds :
        /\ r \in DOMAIN pending_actions
        /\ pending_actions[r] = o
        /\ \E i \in 1..Len(reply_hist[o]) : reply_hist[o][i] = ActionAck(r, TRUE, "")
        /\ "reply channel closed" \in removed_by[r]

\* A route_action_result call's locked part, taken by g in this step: the
\* result's request is pending, its entry is removed (and no other), and the
\* sender picked is the one the entry held.
C12_LockedPart(g) ==
    (pc[g] = "loop" /\ pc'[g] = "route_result_send") =>
        LET res == route'[g].frame
            r == res.request_id
        IN /\ res.type = "ActionRes"
           /\ r \in DOMAIN pending_actions
           /\ route'[g].reply_tx = pending_actions[r]
           /\ DOMAIN pending_actions' = DOMAIN pending_actions \ {r}
           /\ \A q \in DOMAIN pending_actions' : pending_actions'[q] = pending_actions[q]
           /\ reply_chan' = reply_chan

\* A route_action_result call's send, finished by g in this step: the result
\* is appended to the reply channel picked unless its receiver is gone, and
\* pending_actions is left alone.
C12_SendPart(g) ==
    (pc[g] = "route_result_send" /\ pc'[g] = "loop") =>
        LET tx == route[g].reply_tx
            res == route[g].frame
        IN /\ pending_actions' = pending_actions
           /\ reply_chan' = IF reply_rx_alive[tx]
                            THEN [reply_chan EXCEPT ![tx] = Append(@, res)]
                            ELSE reply_chan

\* The peer results among the frames about r that orchestrator o was sent,
\* the last such frame left out: the results that some frame followed.
ResultsFollowed(o, r) ==
    LET h == FramesAbout(reply_hist[o], r)
    IN Count(SubSeq(h, 1, Len(h) - 1), r, LAMBDA f : f.type = "ActionRes" /\ ~IsSynthesised(f))

\* C12: route_action_result removes the entry of the result's request and
\* forwards the result to the entry's reply channel, a result for a request
\* that is not pending is forwarded to nobody, and once the result of an entry
\* was forwarded nothing more about that request reaches the channel: a frame
\* follows a forwarded result only when the orchestrator registered the id
\* again.
C12_RouteActionResult ==
    /\ [][\A g \in GameSessions : C12_LockedPart(g) /\ C12_SendPart(g)]_vars
    /\ [](\A o \in OrchSessions, r \in RequestIds :
              /\ Len(FramesAbout(reply_hist[o], r)) > 0 => n_inserted[o][r] >= 1
              /\ n_inserted[o][r] >= 1 => ResultsFollowed(o, r) < n_inserted[o][r])

\* The orchestrator was forwarded the result of its request, registered the
\* same id again, and was forwarded the accepting ack of the second
\* registration, whose entry is pending.
C12_Witness ==
    \E o \in OrchSessions, r \in RequestIds :
        /\ n_inserted[o][r] = 2
        /\ FramesAbout(reply_hist[o], r) = <<ActionResult(r, "ok", ""), ActionAck(r, TRUE, "")>>
        /\ r \in DOMAIN pending_actions

\* A publish_telemetry call is due when no publish has overwritten the slot
\* yet or the last one that did is at least the interval back.
C13_Due ==
    \/ overwrote_at = Unset
    \/ clock - overwrote_at >= min_relay_interval_ms

\* C13: under a rate limit a publish_telemetry call overwrites the broadcast
\* slot when it is the hub's first publish or at least min_relay_interval_ms
\* after the last overwriting publish, and changes nothing otherwise; and
\* publishes at 0, 50, 60 and 200 ms under an interval of 100 ms overwrite the
\* slot exactly twice, with the first and the last of them.
C13_RateLimit ==
    /\ [][(n_telemetry' = n_telemetry + 1 /\ min_relay_interval_ms > 0) =>
             IF C13_Due
             THEN /\ telemetry_tx'.value = n_telemetry'
                  /\ telemetry_tx'.version = telemetry_tx.version + 1
             ELSE UNCHANGED <<telemetry_tx, last_relay_mono_ms, broadcast>>]_vars
    /\ []((min_relay_interval_ms = 100 /\ published_at = <<0, 50, 60, 200>>)
              => broadcast = <<1, 4>>)

\* The frames o's peer was sent are values broadcast after o subscribed.
C14_NoneInvented(o) ==
    \A i \in 1..Len(forwarded[o]) :
        \E j \in (subscribed_at[o] + 1)..Len(broadcast) : broadcast[j] = forwarded[o][i]

\* The frames o's peer was sent come in broadcast order, none of them twice
\* (the values are numbered in broadcast order).
C14_InOrderOnce(o) ==
    \A i, j \in 1..Len(forwarded[o]) : i < j => forwarded[o][i] < forwarded[o][j]

\* C14: the Telemetry frames an orchestrator session forwards are a
\* subsequence of the values broadcast after it subscribed: in broadcast
\* order, none twice, none invented.
C14_LatestValueFanOut ==
    \A o \in OrchSessions : C14_NoneInvented(o) /\ C14_InOrderOnce(o)

\* C15: the frames a session sends carry seq 1, 2, 3, ... without gap or
\* repeat: in every step that delivers a frame, the frame's seq is the number
\* of frames delivered with it, which is one more than before, whatever its
\* payload; and a session that has sent nothing has no frame.
C15_SeqCountsFrames ==
    /\ [](\A s \in WireSessions :
             IF n_sent[s] = 0 THEN sent_last[s] = NoFrame
             ELSE sent_last[s].seq = n_sent[s])
    /\ [][\A s \in WireSessions :
             /\ n_sent'[s] \in {n_sent[s], n_sent[s] + 1}
             /\ n_sent'[s] = n_sent[s] => sent_last'[s] = sent_last[s]]_vars

\* An orchestrator session has sent four frames, the handshake reply first
\* and an Error frame last.
C15_Witness ==
    \E s \in WireSessions :
        /\ n_sent[s] = 4
        /\ sent_last[s].seq = 4
        /\ sent_last[s].payload.type = "Error"
        /\ st[s].peer_role = "orchestrator"

\* The largest of a non-empty set of numbers.
MaxOf(S) == CHOOSE m \in S : \A x \in S : x <= m

\* C16: every frame a session sends carries as ack the session's
\* last_peer_seq at the send, which is 0 or the seq of an envelope received
\* from the peer before, so never more than the largest seq the peer sent.
C16_AckIsLastPeerSeq ==
    /\ [](\A s \in WireSessions :
             /\ st[s].last_peer_seq \in {0} \cup peer_seqs[s]
             /\ sent_last[s] # NoFrame =>
                   /\ sent_last[s].ack \in {0} \cup peer_seqs[s]
                   /\ sent_last[s].ack <= MaxOf({0} \cup peer_seqs[s]))
    /\ [][\A s \in WireSessions :
             n_sent'[s] = n_sent[s] + 1 => sent_last'[s].ack = st'[s].last_peer_seq]_vars

\* The peer has sent seq 5 and then seq 2, and the frame sent last
\* acknowledges 2.
C16_Witness ==
    \E s \in WireSessions :
        /\ peer_seqs[s] = {2, 5}
        /\ sent_last[s] # NoFrame
        /\ sent_last[s].ack = 2
        /\ sent_last[s].payload.type = "TimeSyncRes"

\* The first frame with the client's handshake_id replaced.
WithHandshakeId(first, hid) == [first EXCEPT !.payload.handshake_id = hid]

\* The frame carries the string in one of its identifying fields.
Carries(payload, id) ==
    /\ payload.type \in {"Hello", "HelloAck"}
    /\ \/ payload.handshake_id = id
       \/ payload.type = "Hello" /\ payload.agent_id = id

\* C17: the handshake_id of a client's Hello has no influence on what the
\* bridge sends: a handshake reply carries the server's session id as
\* handshake_id, no frame sent carries the client's value, and at every
\* handshake the outcome (SessionState, reply, hub access) for a Hello is the
\* one for the same Hello with any other client handshake_id.
C17_HandshakeIdIgnored ==
    \A s \in WireSessions :
        /\ hs_reply[s].type \in {"Hello", "HelloAck"} =>
              hs_reply[s].handshake_id = SessionId(s)
        /\ (hello_in[s] # NoFrame /\ hello_in[s].kind = "envelope"
              /\ hello_in[s].payload.type = "Hello" /\ sent_last[s] # NoFrame) =>
              ~Carries(sent_last[s].payload, hello_in[s].payload.handshake_id)
        /\ wpc[s] = "hello" =>
              \A first \in FirstFrames, hid \in ClientHandshakeIds :
                  (first.kind = "envelope" /\ first.payload.type = "Hello") =>
                      RunHello(st[s], first) = RunHello(st[s], WithHandshakeId(first, hid))

\* A client that sent its own handshake_id was accepted and answered with
\* the session id as handshake_id.
C17_Witness ==
    \E s \in WireSessions :
        /\ hs_verdict[s] = "accepted"
        /\ hello_in[s].payload.handshake_id = <<"h">>
        /\ n_sent[s] = 1
        /\ sent_last[s].payload = hs_reply[s]
        /\ sent_last[s].payload.handshake_id = SessionId(s)

\* The hub as RelayHub::new left it.
HubUntouched ==
    /\ primary_game_sender = NoSender
    /\ orchestrator_count = 0
    /\ pending_actions = EmptyPending
    /\ broadcast = << >>

\* The first frame is one the handshake fails on before role dispatch, and
\* the Error code that failure is answered with.
PreDispatchCode(first) ==
    IF first.kind = "timeout" THEN "timeout"
    ELSE IF first.kind = "undecodable" THEN "decode_failed"
    ELSE IF first.kind = "envelope" /\
            (first.protocol_version # ProtocolVersion \/ first.payload.type # "Hello")
    THEN "protocol_violation"
    ELSE "none"

\* The session's first frame never came: the stream ended or the read failed.
NoFirstFrame(first) == first.kind \in {"closed", "read_error"}

\* C18 as stated: every handshake that fails before role dispatch hands
\* exactly one Error frame to the socket, with the code of the failure, and
\* ends the session with the hub untouched.
C18_OneErrorFrame ==
    \A s \in WireSessions :
        hs_verdict[s] = "failed" =>
            /\ wpc[s] = "done"
            /\ HubUntouched
            /\ st[s].server_seq = 1
            /\ hs_reply[s].type = "Error"
            /\ hs_reply[s].code \in {"timeout", "decode_failed", "protocol_violation"}

\* C18: a handshake that fails before role dispatch on a timeout, an
\* undecodable frame, a wrong protocol_version or a payload that is not Hello
\* hands exactly one Error frame with the code of that failure to the socket,
\* sends nothing else (nothing at all when that send fails) and ends the
\* session with the hub untouched; one that fails because the stream ended or
\* the read failed before a first frame sends nothing.
C18_PreDispatchFailure ==
    \A s \in WireSessions :
        /\ (hello_in[s] # NoFrame /\ PreDispatchCode(hello_in[s]) # "none") =>
              /\ hs_verdict[s] = "failed"
              /\ wpc[s] = "done"
              /\ HubUntouched
              /\ hs_reply[s].type = "Error"
              /\ hs_reply[s].code = PreDispatchCode(hello_in[s])
              /\ st[s].server_seq = 1
              /\ n_sent[s] <= 1
              /\ n_sent[s] = 1 => sent_last[s].payload = hs_reply[s]
        /\ (hello_in[s] # NoFrame /\ NoFirstFrame(hello_in[s])) =>
              /\ hs_verdict[s] = "failed"
              /\ wpc[s] = "done"
              /\ HubUntouched
              /\ hs_reply[s] = NoFrame
              /\ n_sent[s] = 0

\* A peer whose first envelope carried protocol_version 2 and a Hello of the
\* primary game agent was sent one protocol_violation Error and nothing else.
C18_Witness ==
    \E s \in WireSessions :
        /\ hello_in[s] # NoFrame
        /\ hello_in[s].kind = "envelope"
        /\ hello_in[s].protocol_version = ProtocolVersion + 1
        /\ hello_in[s].payload.type = "Hello"
        /\ hello_in[s].payload.role = "game_client"
        /\ hello_in[s].payload.agent_id = PrimaryGameAgentId
        /\ n_sent[s] = 1
        /\ sent_last[s].payload.code = "protocol_violation"
        /\ wpc[s] = "done"

\* The reason a handshake reply gives: that of a HelloAck, or the message of
\* the Error a legacy peer is sent.
ReplyReason(reply) ==
    IF reply.type = "HelloAck" THEN reply.reason
    ELSE IF reply.type = "Error" THEN reply.message
    ELSE "none"

\* The handshake of s ends in this step, on a valid Hello.
C19_Outcome(s) ==
    (wpc[s] = "hello" /\ wpc'[s] # "hello") =>
        LET hello == hello_in'[s].payload
            role == PeerRoleFromI32(hello.role)
            verdict == hs_verdict'[s]
            reason == ReplyReason(hs_reply'[s])
            room == orchestrator_count < max_orchestrator_subscribers
        IN /\ verdict \in {"accepted", "rejected"}
           /\ (role = "game_client" /\ hello.agent_id # PrimaryGameAgentId) =>
                 /\ verdict = "accepted"
                 /\ ~st'[s].is_primary_game
                 /\ primary_game_sender' = primary_game_sender
           /\ role = "orchestrator" =>
                 /\ verdict = "accepted" <=> (allow_orchestrator_subscribe /\ room)
                 /\ ~allow_orchestrator_subscribe =>
                       reason = "orchestrator subscriptions are disabled"
                 /\ (allow_orchestrator_subscribe /\ ~room) =>
                       reason = "orchestrator subscription limit reached"
           /\ role \notin {"game_client", "orchestrator"} =>
                 /\ verdict = "rejected"
                 /\ reason = "unsupported peer role"
           /\ verdict = "rejected" =>
                 /\ wpc'[s] = "done"
                 /\ orchestrator_count' = orchestrator_count
                 /\ primary_game_sender' = primary_game_sender
                 /\ ~w_slot'[s]

\* C19: after a valid Hello the outcome follows from the role and the hub: a
\* game client without the primary id is accepted and attaches nothing, an
\* orchestrator is accepted exactly when subscriptions are enabled and the
\* count is below the cap and is otherwise rejected with the reason of the
\* refusal, any other role is rejected as unsupported, and a rejection ends
\* the session and leaves the counter and the primary slot as they were.
C19_HandshakeOutcome == [][\A s \in WireSessions : C19_Outcome(s)]_vars

\* Two orchestrators hold the two slots and the third was rejected because
\* the limit is reached.
C19_Witness ==
    /\ max_orchestrator_subscribers = 2
    /\ orchestrator_count = 2
    /\ w_slot["w1"] /\ w_slot["w2"]
    /\ wpc["w1"] = "open" /\ wpc["w2"] = "open" /\ wpc["w3"] = "done"
    /\ hello_in["w3"].payload.role = "orchestrator"
    /\ hs_verdict["w3"] = "rejected"
    /\ ReplyReason(hs_reply["w3"]) = "orchestrator subscription limit reached"

\* The peer of s sent a Hello that reached role dispatch.
Dispatched(s) == hs_verdict[s] \in {"accepted", "rejected"}

\* The reasons run_ws_session rejects a handshake with.
RejectReasons ==
    {"primary game sender is unavailable", "orchestrator subscriptions are disabled",
     "orchestrator subscription limit reached", "unsupported peer role"}

\* C20: the form of the handshake reply follows from whether the peer's
\* Hello lists CAP_HELLO_ACK_V1.  If it does, acceptance is a HelloAck with
\* accepted = true whose negotiated_capabilities are, as a set, the server's
\* negotiable capabilities that the peer lists, and rejection is a HelloAck
\* with accepted = false and the reason; if it does not, acceptance is a
\* legacy Hello with role bridge_server and rejection an Error with code
\* unauthorized and the reason as message.
C20_ReplyForm ==
    \A s \in WireSessions :
        Dispatched(s) =>
            LET caps == Range(hello_in[s].payload.capabilities)
                reply == hs_reply[s]
                accepted == hs_verdict[s] = "accepted"
            IN IF "CAP_HELLO_ACK_V1" \in caps
               THEN /\ reply.type = "HelloAck"
                    /\ reply.accepted = accepted
                    /\ accepted =>
                          Range(reply.negotiated_capabilities)
                             = Range(ServerNegotiableCapabilities) \cap caps
                    /\ ~accepted => reply.reason \in RejectReasons
               ELSE IF accepted
               THEN /\ reply.type = "Hello"
                    /\ reply.role = "bridge_server"
               ELSE /\ reply.type = "Error"
                    /\ reply.code = "unauthorized"
                    /\ reply.message \in RejectReasons

\* A peer that listed an unknown capability, CAP_HELLO_ACK_V1 and
\* CAP_ACTIONS_V1 twice was accepted with the two known ones negotiated.
C20_Witness ==
    \E s \in WireSessions :
        /\ hs_verdict[s] = "accepted"
        /\ hello_in[s].payload.capabilities
              = <<"CAP_OTHER", "CAP_HELLO_ACK_V1", "CAP_ACTIONS_V1", "CAP_ACTIONS_V1">>
        /\ n_sent[s] >= 1
        /\ hs_reply[s].type = "HelloAck"
        /\ hs_reply[s].negotiated_capabilities = <<"CAP_ACTIONS_V1", "CAP_HELLO_ACK_V1">>

\* The frames handle_ws_message answers with an Error after the handshake, and
\* the code of the answer.
BadFrameCode(frame) ==
    IF frame.kind = "undecodable" THEN "decode_failed"
    ELSE IF frame.kind = "envelope" /\ frame.protocol_version # ProtocolVersion
    THEN "protocol_violation"
    ELSE "none"

\* The session loop of s takes the bad frame in this step.
C21_Step(s, frame, ok) ==
    WireRecv(s, frame, ok) =>
        /\ st'[s] = [st[s] EXCEPT !.server_seq = @ + 1]
        /\ st'[s].last_peer_seq = st[s].last_peer_seq
        /\ st'[s].peer_role = st[s].peer_role
        /\ \A t \in WireSessions \ {s} : st'[t] = st[t] /\ n_sent'[t] = n_sent[t]
        /\ IF ok
           THEN /\ n_sent'[s] = n_sent[s] + 1
                /\ sent_last'[s].payload.type = "Error"
                /\ sent_last'[s].payload.code = BadFrameCode(frame)
                /\ sent_last'[s].seq = st[s].server_seq + 1
                /\ wpc'[s] = "open"
                /\ UNCHANGED <<hub_vars, telemetry_vars, w_slot>>
           ELSE /\ n_sent'[s] = n_sent[s]
                /\ wpc'[s] = "done"

\* C21: in an open session, a binary frame that does not decode, or an
\* envelope whose protocol_version is not 1, makes handle_ws_message hand
\* exactly one Error frame to the socket, with code decode_failed and
\* protocol_violation respectively; last_peer_seq, the role and the rest of
\* the SessionState stay (server_seq counts the Error), the hub and the
\* telemetry channel stay, and the session is open for the next frame.  When
\* the socket does not take the Error frame nothing is sent and the session
\* ends.
C21_BadFrameAnswered ==
    [][\A s \in WireSessions, frame \in PeerFrames, ok \in BOOLEAN :
          BadFrameCode(frame) # "none" => C21_Step(s, frame, ok)]_vars

\* An orchestrator session that had acknowledged seq 5 was sent a
\* protocol_violation Error for a later frame and is still open, its slot
\* held.
C21_Witness ==
    \E s \in WireSessions :
        /\ wpc[s] = "open"
        /\ st[s].peer_role = "orchestrator"
        /\ w_slot[s]
        /\ orchestrator_count = 1
        /\ n_sent[s] = 3
        /\ sent_last[s].payload = ErrorFrame("protocol_violation", "protocol_version mismatch",
                                              "msg-proto")
        /\ hello_in[s].seq = 2
        /\ st[s].last_peer_seq = 5
        /\ sent_last[s].ack = 5

\* The requests of session o that entered an action channel.
EnteredFrom(o) ==
    LET from(h) == Len(SelectSeq(h, LAMBDA e : e.from = o))
    IN from(entered["g1"]) + from(entered["g2"])

\* The errors enqueue_action returns.
EnqueueErrors ==
    {"request_id must not be empty", "target_agent_id does not match primary_game_agent_id",
     "primary game client is not connected", "primary game action queue closed",
     "action enqueue timeout"}

\* enqueue_action returns an error to session o in this step.
C22_Failure(o) ==
    (ValidationFailed(o) \/ FailedSendReturned(o)) =>
        /\ enq'[o].result \in EnqueueErrors
        /\ action_chan' = action_chan
        /\ entered' = entered
        /\ has_slot[o] /\ has_slot'[o]

\* Session o leaves the state in which it holds the error of its call.
C22_Answer(o) ==
    (pc[o] = "nack" /\ pc'[o] # "nack") =>
        \/ /\ nack_out'[o] = Append(nack_out[o],
                                     ActionAck(enq[o].req.request_id, FALSE, enq[o].result))
           /\ pc'[o] = "loop"
           /\ has_slot[o] /\ has_slot'[o]
           /\ orchestrator_count' = orchestrator_count
           /\ action_chan' = action_chan
        \/ /\ nack_out'[o] = nack_out[o]
           /\ pc'[o] = "done"

\* C22: a call of enqueue_action that fails, for any of its five errors,
\* leaves the action channels as they were, and the session answers it with
\* one ActionAck{accepted = false} that carries the request_id of the request
\* and the error as reason, then is back in its loop with its slot; no such
\* ActionAck is sent otherwise, and every ActionReq a session has handled has
\* either entered the primary's channel or was answered so, never both.  When
\* the socket does not take the ActionAck the session ends.
C22_FailedEnqueueIsNacked ==
    /\ [][\A o \in OrchSessions :
             /\ C22_Failure(o)
             /\ C22_Answer(o)
             /\ nack_out'[o] # nack_out[o] => pc[o] = "nack"]_vars
    /\ [](\A o \in OrchSessions :
             pc[o] = "loop" => Len(received[o]) = EnteredFrom(o) + Len(nack_out[o]))

\* An orchestrator's request found the channel full of the other
\* orchestrator's request, its send timed out, and it was answered and is in
\* its loop with its slot, the channel as it was.
C22_Witness ==
    \E o \in OrchSessions :
        /\ nack_out[o] = << ActionAck(<<"a">>, FALSE, "action enqueue timeout") >>
        /\ received[o] = << TypedActionRequest(<<"a">>, <<" ">>, "BARITONE_GOTO") >>
        /\ pc[o] = "loop"
        /\ has_slot[o]
        /\ EnteredFrom(o) = 0
        /\ primary_game_sender # NoSender
        /\ action_chan[primary_game_sender]
              = << TypedActionRequest(<<"a">>, <<" ">>, "STOP_ALL") >>
        /\ <<"a">> \notin DOMAIN pending_actions

\* The requests of a history of channel entries, and those of them that
\* session o sent.
Requests(h) == [i \in DOMAIN h |-> h[i].req]
RequestsFrom(h, o) == Requests(SelectSeq(h, LAMBDA e : e.from = o))

\* p is h with some of its entries left out.
RECURSIVE IsSubSeq(_, _)
IsSubSeq(p, h) ==
    IF p = << >> THEN TRUE
    ELSE IF h = << >> THEN FALSE
    ELSE IF Head(p) = Head(h) THEN IsSubSeq(Tail(p), Tail(h))
    ELSE IsSubSeq(p, Tail(h))

\* C23: what the peer of a game session has been sent is a prefix of what
\* entered the session's action channel, in the order of entry, so no
\* request is sent twice or out of order; while the session is in its loop
\* the requests that entered are those sent followed by those still in the
\* channel; and the requests of one orchestrator session entered in the
\* order in which that session received them.
C23_PrimaryReceivesInEntryOrder ==
    /\ \A g \in GameSessions :
          /\ IsPrefix(delivered[g], Requests(entered[g]))
          /\ pc[g] = "loop" => Requests(entered[g]) = delivered[g] \o action_chan[g]
          /\ \A o \in OrchSessions : IsSubSeq(RequestsFrom(entered[g], o), received[o])
    /\ \A o \in OrchSessions : EnteredFrom(o) <= Len(received[o])

\* One orchestrator sent STOP_ALL and then BARITONE_GOTO to a hub whose
\* channels hold two requests, and the primary's peer was sent them in that
\* order.
C23_Witness ==
    \E g \in GameSessions, o \in OrchSessions :
        /\ action_queue_size = ActionQueueSize + 1
        /\ received[o] = << TypedActionRequest(<<"a">>, <<" ">>, "STOP_ALL"),
                            TypedActionRequest(<<"a">>, <<" ">>, "BARITONE_GOTO") >>
        /\ RequestsFrom(entered[g], o) = received[o]
        /\ delivered[g] = received[o]
        /\ action_chan[g] = << >>

\* C24: every ActionReq frame sent to the peer of a game session carries a
\* type that is_allowlisted accepts, STOP_ALL or BARITONE_GOTO.
C24_OnlyAllowlistedForwarded ==
    \A g \in GameSessions : \A i \in DOMAIN delivered[g] :
        IsAllowlisted(delivered[g][i].action_type)

\* The jobs of a sequence, as a set.
JobsOf(jobs) == {jobs[i] : i \in DOMAIN jobs}

\* The jobs a call returned as dropped for the reason.
DroppedFor(call, reason) ==
    {call.dropped[i].job : i \in {k \in DOMAIN call.dropped : call.dropped[k].reason = reason}}

\* The step is a call of drop_expired.
C25_DropExpired ==
    speech_call'.type = "drop_expired" =>
        LET now_ms == speech_call'.now_ms
            live(job) == job.deadline_ms >= now_ms
            late(jobs) == {job \in JobsOf(jobs) : job.deadline_ms < now_ms}
        IN /\ queue'.p0 = queue.p0
           /\ queue'.p1 = SelectSeq(queue.p1, live)
           /\ queue'.p2 = SelectSeq(queue.p2, live)
           /\ Len(speech_call'.dropped) = Cardinality(late(queue.p1) \cup late(queue.p2))
           /\ DroppedFor(speech_call', "deadline_expired") = late(queue.p1) \cup late(queue.p2)
           /\ \A i \in DOMAIN speech_call'.dropped :
                 speech_call'.dropped[i].job.priority # "P0Safety"

\* The step is a call of pop_next.
C25_PopNext ==
    (speech_call'.type = "pop_next" /\ queue.p0 # << >>) =>
        /\ speech_call'.returned = Head(queue.p0)
        /\ queue'.p0 = Tail(queue.p0)

\* C25: a job leaves p0 only as the job pop_next returns or as the oldest
\* job that a push onto the full tier evicts, whatever the deadlines and
\* now_ms are; drop_expired(now) leaves p0 as it is, keeps of p1 and p2 the
\* jobs with deadline_ms >= now in their order, and returns each other job of
\* p1 and p2 once, as dropped with reason deadline_expired; pop_next returns
\* the front of a non-empty p0.  Each tier holds jobs of its priority only.
C25_P0NeverExpires ==
    /\ [][/\ C25_DropExpired
          /\ C25_PopNext
          /\ JobsOf(queue.p0) \ JobsOf(queue'.p0)
                \subseteq ({speech_call'.returned}
                             \cup DroppedFor(speech_call', "queue_overflow"))
          /\ DroppedFor(speech_call', "queue_overflow") # {} =>
                speech_call'.type = "push"]_vars
    /\ [](/\ \A job \in JobsOf(queue.p0) : job.priority = "P0Safety"
          /\ \A job \in JobsOf(queue.p1) : job.priority = "P1ChatReply"
          /\ \A job \in JobsOf(queue.p2) : job.priority = "P2Commentary")

\* drop_expired(2) has kept a safety line with deadline 1 and a chat reply
\* with deadline 2 and has dropped a commentary with deadline 1.
C25_Witness ==
    /\ speech_call.type = "drop_expired"
    /\ speech_call.now_ms = 2
    /\ Len(queue.p0) = 1 /\ queue.p0[1].deadline_ms = 1
    /\ Len(queue.p1) = 1 /\ queue.p1[1].deadline_ms = 2
    /\ queue.p2 = << >>
    /\ Len(speech_call.dropped) = 1
    /\ speech_call.dropped[1].job.priority = "P2Commentary"
    /\ speech_call.dropped[1].job.deadline_ms = 1
    /\ speech_call.dropped[1].reason = "deadline_expired"

\* The positions of the jobs of a tier that pop_next may return at now_ms.
Poppable(jobs, now_ms) == {i \in DOMAIN jobs : jobs[i].deadline_ms >= now_ms}

\* The least of a non-empty set of positions.
MinOf(S) == CHOOSE m \in S : \A x \in S : m <= x

\* The job ids of a tier grow from front to back.
InInsertionOrder(jobs) ==
    \A i, j \in DOMAIN jobs : i < j => jobs[i].job_id < jobs[j].job_id

\* pop_next has taken the first poppable job of a tier of chat replies or
\* commentary, or has found none and emptied the tier.
TookFirstPoppable(jobs, after, returned, now_ms) ==
    IF Poppable(jobs, now_ms) = {}
    THEN after = << >>
    ELSE LET first == MinOf(Poppable(jobs, now_ms))
         IN /\ returned = jobs[first]
            /\ after = SubSeq(jobs, first + 1, Len(jobs))

\* The step is a call of pop_next.
C26_Step ==
    speech_call'.type = "pop_next" =>
        LET now_ms == speech_call'.now_ms
            returned == speech_call'.returned
        IN /\ speech_call'.dropped = << >>
           /\ IF queue.p0 # << >>
              THEN /\ returned = Head(queue.p0)
                   /\ queue' = [queue EXCEPT !.p0 = Tail(@)]
              ELSE IF Poppable(queue.p1, now_ms) # {}
              THEN /\ TookFirstPoppable(queue.p1, queue'.p1, returned, now_ms)
                   /\ queue' = [queue EXCEPT !.p1 = queue'.p1]
              ELSE /\ TookFirstPoppable(queue.p2, queue'.p2, returned, now_ms)
                   /\ Poppable(queue.p2, now_ms) = {} => returned = NoJob
                   /\ queue' = [queue EXCEPT !.p1 = << >>, !.p2 = queue'.p2]
           /\ returned # NoJob =>
                 \A job \in JobsOf(queue'[QueueOf(returned.priority)]) :
                     returned.job_id < job.job_id

\* C26: pop_next(now) returns the front of p0 when p0 is not empty, whatever
\* its deadline, and touches nothing else; otherwise the first job of p1 with
\* deadline_ms >= now, removing it and the jobs before it and leaving p2;
\* otherwise the first such job of p2, with p1 emptied; otherwise nothing,
\* with p1 and p2 emptied.  It reports no job as dropped.  The jobs of a tier
\* stand in the order of their push, and the job returned was pushed before
\* every job left in its tier.
C26_PopNextOrder ==
    /\ [][C26_Step]_vars
    /\ [](InInsertionOrder(queue.p0) /\ InInsertionOrder(queue.p1)
            /\ InInsertionOrder(queue.p2))

\* pop_next(2) has returned the chat reply pushed third, with deadline 2,
\* from behind the one pushed second, which is gone; the commentary pushed
\* first is still queued.
C26_Witness ==
    /\ speech_call.type = "pop_next"
    /\ speech_call.now_ms = 2
    /\ speech_call.returned = SpeechJob(3, "P1ChatReply", 2)
    /\ n_jobs = 3
    /\ queue.p0 = << >>
    /\ queue.p1 = << >>
    /\ Len(queue.p2) = 1
    /\ queue.p2[1].job_id = 1

\* A call of poll_timeouts(now_ms), whatever order its iterator takes.
PollStep(now_ms) ==
    \E order \in IterOrders(ledger.inflight) : LedgerPollTimeouts(now_ms, order)

\* The kinds of the events a Vec of TimeoutEvents holds for request_id, in order.
EventsFor(timed_out, request_id) ==
    LET mine == SelectSeq(timed_out, LAMBDA e : e.request_id = request_id)
    IN [i \in 1..Len(mine) |-> mine[i].kind]

\* What the claim has poll_timeouts(now_ms) emit for an entry that was sent at
\* h.now_ms with the timeouts of h and is acked or not.
EventsDue(h, acked, now_ms) ==
    IF ~acked /\ now_ms >= h.now_ms + h.ack_timeout_ms THEN <<"Ack">>
    ELSE IF now_ms >= h.now_ms + h.result_timeout_ms THEN <<"Result">>
    ELSE << >>

\* C28, on every call of poll_timeouts: each in-flight entry carries the
\* deadlines t + a and t + r of its on_sent(id, t, a, r); the call returns for
\* it one Ack event if it is not acked and now >= its ack deadline, otherwise
\* one Result event if now >= its result deadline, otherwise nothing, and
\* nothing for an id that is not in flight; the entries that emitted are
\* removed and the others are left as they were.
C28_Step ==
    \A now_ms \in PollMs :
        PollStep(now_ms) =>
            /\ \A id \in DOMAIN ledger.inflight :
                  LET h == ledger_hist[id]
                      v == ledger.inflight[id]
                      due == EventsDue(h, v.acked, now_ms)
                  IN /\ h.phase \in {"sent", "acked"}
                     /\ v.ack_deadline_ms = h.now_ms + h.ack_timeout_ms
                     /\ v.result_deadline_ms = h.now_ms + h.result_timeout_ms
                     /\ EventsFor(ledger_call'.timed_out, id) = due
                     /\ IF due = << >>
                        THEN id \in DOMAIN ledger'.inflight /\ ledger'.inflight[id] = v
                        ELSE id \notin DOMAIN ledger'.inflight
            /\ \A id \in ActionIds \ DOMAIN ledger.inflight :
                  /\ EventsFor(ledger_call'.timed_out, id) = << >>
                  /\ id \notin DOMAIN ledger'.inflight

\* C28, in every state: an on_sent has yielded at most one timeout event, and
\* an entry that emitted one is no longer in flight, so that a later poll
\* reports nothing for it.
C28_AtMostOnce ==
    \A id \in ActionIds :
        ledger_hist[id].phase # "none" =>
            /\ ledger_hist[id].events <= 1
            /\ ledger_hist[id].phase = "timed_out" <=> ledger_hist[id].events = 1
            /\ ledger_hist[id].phase = "timed_out" => id \notin DOMAIN ledger.inflight

\* C28: poll_timeouts(now) emits for each in-flight entry an Ack event if it
\* is not acked and now >= its ack deadline t + a, otherwise a Result event if
\* now >= its result deadline t + r, otherwise nothing; an entry that emitted
\* is removed, so each on_sent yields at most one timeout event and a later
\* poll reports nothing for it.
C28_PollTimeouts == [][C28_Step]_vars /\ []C28_AtMostOnce

\* One poll reported an ack timeout for one request and a result timeout for an
\* acked one, and left the ledger empty.
C28_Witness ==
    /\ ledger_call.type = "poll_timeouts"
    /\ \E i, j \in DOMAIN ledger_call.timed_out :
          /\ ledger_call.timed_out[i].kind = "Ack"
          /\ ledger_call.timed_out[j].kind = "Result"
          /\ ledger_hist[ledger_call.timed_out[j].request_id].events = 1
    /\ DOMAIN ledger.inflight = {}

\* C29, on every call of poll_timeouts: an entry acked with accepted = true
\* emits no Ack event, nothing at all before its result deadline (whatever its
\* ack deadline) and one Result event from that deadline on; a request closed
\* by on_ack(id, false) or on_result(id) emits nothing.
C29_Step ==
    \A now_ms \in PollMs :
        PollStep(now_ms) =>
            \A id \in ActionIds :
                LET h == ledger_hist[id]
                    events == EventsFor(ledger_call'.timed_out, id)
                IN /\ h.phase = "acked" =>
                        /\ id \in DOMAIN ledger.inflight
                        /\ events = IF now_ms < h.now_ms + h.result_timeout_ms
                                    THEN << >> ELSE <<"Result">>
                        /\ events = << >> => id \in DOMAIN ledger'.inflight
                        /\ events # << >> => id \notin DOMAIN ledger'.inflight
                   /\ h.phase \in {"nacked", "result"} => events = << >>

\* C29, in every state: a request closed by on_ack(id, false) or on_result(id)
\* is not in flight and keeps the count of timeout events it had, which is 0.
C29_Closed ==
    \A id \in ActionIds :
        ledger_hist[id].phase \in {"nacked", "result"} =>
            /\ id \notin DOMAIN ledger.inflight
            /\ ledger_hist[id].events = 0

\* C29: once an in-flight entry is acked with accepted = true only its result
\* deadline applies (no Ack event, nothing while now < result deadline, one
\* Result event at the first poll with now >= result deadline); after
\* on_ack(id, false) or on_result(id) no timeout event is emitted for id.
C29_AckedOnlyResultDeadline == [][C29_Step]_vars /\ []C29_Closed

\* An acked entry was polled at or after its ack deadline and before its result
\* deadline: the poll reported nothing and the entry is still in flight.
C29_Witness ==
    \E id \in ActionIds :
        LET h == ledger_hist[id]
        IN /\ h.phase = "acked"
           /\ ledger_call.type = "poll_timeouts"
           /\ ledger_call.now_ms >= h.now_ms + h.ack_timeout_ms
           /\ ledger_call.now_ms < h.now_ms + h.result_timeout_ms
           /\ ledger_call.timed_out = << >>
           /\ id \in DOMAIN ledger.inflight

\* A step of StateActor::run that ran the handler op.
HandlerStep(ops) == n_handled' = n_handled + 1 /\ actor_call'.type \in ops

\* The handlers of run that call enqueue_speech once and nothing else that
\* touches the queue.
EnqueueHandlers == {"telemetry", "action_nack", "action_result"}

\* C27, on every handler that pushed one job: the job is at the back of its
\* tier behind the jobs that were there; if the tier held its capacity its
\* oldest job, and only that one, is gone and the handler wrote one
\* speech_dropped line for it with reason queue_overflow (or returned Err
\* because the metrics file could not be written), otherwise nothing is gone
\* and no line is written; the other tiers are unchanged.
C27_Step ==
    HandlerStep(EnqueueHandlers) /\ Len(actor_call'.pushed) = 1 =>
        LET job == actor_call'.pushed[1]
            tier == QueueOf(job.priority)
            old == queue[tier]
            full == Len(old) >= CapOf(queue, job.priority)
        IN /\ queue'[tier] = Append(IF full THEN Tail(old) ELSE old, job)
           /\ \A other \in {"p0", "p1", "p2"} \ {tier} : queue'[other] = queue[other]
           /\ IF full
              THEN \/ /\ actor_call'.result = "Ok"
                      /\ actor_call'.lines =
                            << SpeechDroppedLine(DroppedSpeechJob(Head(old), "queue_overflow")) >>
                   \/ /\ actor_call'.result = "Err"
                      /\ actor_call'.lines = << >>
              ELSE actor_call'.result = "Ok" /\ actor_call'.lines = << >>

\* C27, in every state: no tier holds more jobs than its capacity, which is at
\* least 1.
C27_Capacity ==
    /\ queue.max_p0 >= 1 /\ Len(queue.p0) <= queue.max_p0
    /\ queue.max_p1 >= 1 /\ Len(queue.p1) <= queue.max_p1
    /\ queue.max_p2 >= 1 /\ Len(queue.p2) <= queue.max_p2

PushedWith(call, text) == {i \in DOMAIN call.pushed : call.pushed[i].text = text}

\* What the claim has a tick do for the timeouts it polled: a P0 safety line
\* for each, a fresh STOP_ALL request for the primary for each, each request
\* registered with deadlines counted from the tick's time if its send
\* succeeded, the timed-out entries gone and no more entries than before.
Cascaded(call, cfg, before, known, after) ==
    LET timed_out == call.timed_out
    IN /\ \A i \in DOMAIN timed_out :
              LET line == TimeoutLine(timed_out[i].request_id, TimeoutLabel(timed_out[i].kind))
              IN /\ Cardinality(PushedWith(call, line)) = 1
                 /\ \A k \in PushedWith(call, line) : call.pushed[k].priority = "P0Safety"
       /\ Len(call.sent) = Len(timed_out)
       /\ \A i \in DOMAIN call.sent :
              LET req == call.sent[i].req
              IN /\ req.action_type = "STOP_ALL"
                 /\ req.target_agent_id = cfg.primary_game_agent_id
                 /\ req.request_id > known
                 /\ \A j \in DOMAIN call.sent : call.sent[j].req.request_id = req.request_id => j = i
                 /\ IF call.sent[i].ok
                    THEN /\ req.request_id \in DOMAIN after.inflight
                         /\ after.inflight[req.request_id] =
                               InflightAction(call.now_ms + cfg.action_ack_timeout_ms,
                                              call.now_ms + cfg.action_result_timeout_ms, FALSE)
                    ELSE req.request_id \notin DOMAIN after.inflight
       /\ \A i \in DOMAIN timed_out : timed_out[i].request_id \notin DOMAIN after.inflight
       /\ Cardinality(DOMAIN after.inflight) <= Cardinality(DOMAIN before.inflight)

\* C30: on a tick, for each ledger timeout the state actor enqueues one P0
\* safety line and sends exactly one fresh STOP_ALL request with a new
\* request_id targeted at primary_game_agent_id and, when the send succeeded,
\* registers it in the ledger with ack and result deadlines counted from the
\* tick's time; the timed-out entry is gone, so a tick never increases the
\* number of in-flight ledger entries.
C30_TimeoutCascade ==
    [][HandlerStep({"on_tick"}) => Cascaded(actor_call', actor_cfg, ledger, n_actions, ledger')]_vars

\* The tick returned from inside its loop over the timeouts: an enqueue_speech
\* of a safety line returned Err.
CutShort(call) ==
    /\ call.result = "Err"
    /\ call.spoke = NoJob
    /\ Len(call.sent) < Len(call.timed_out)

\* The cascade of C30 on every tick that is not cut short by a metrics write
\* that failed, and on every tick at all: the entries that timed out are gone
\* and the ledger holds no more entries than before.
C30_UnlessCutShort ==
    [][HandlerStep({"on_tick"}) =>
          /\ ~CutShort(actor_call') => Cascaded(actor_call', actor_cfg, ledger, n_actions, ledger')
          /\ \A i \in DOMAIN actor_call'.timed_out :
                actor_call'.timed_out[i].request_id \notin DOMAIN ledger'.inflight
          /\ Cardinality(DOMAIN ledger'.inflight) <= Cardinality(DOMAIN ledger.inflight)]_vars

\* Two requests timed out in one tick: two STOP_ALL requests went out, one send
\* failed, and the ledger holds the one that was sent.
C30_Cascade ==
    /\ actor_call.type = "on_tick"
    /\ actor_call.result = "Ok"
    /\ Len(actor_call.timed_out) = 2
    /\ Len(actor_call.sent) = 2
    /\ \E i, j \in 1..2 : actor_call.sent[i].ok /\ ~actor_call.sent[j].ok
    /\ Cardinality(DOMAIN ledger.inflight) = 1

\* A tick was cut short: a request timed out and is gone from the ledger, and
\* no STOP_ALL request was sent for it.
C30_Lost ==
    /\ actor_call.type = "on_tick"
    /\ CutShort(actor_call)

\* A tick popped a job and its pipeline ran with the subtitle gateway failing
\* and nothing else: the job is the one spoken, and the speech_pipeline line,
\* when it could be written, carries the empty subtitle fields.
SubtitleFailureContinues(call) ==
    (call.outcome.ok /\ call.outcome.subtitle = EmptySubtitle) =>
        /\ call.spoke = call.popped
        /\ call.result = "Ok" =>
              /\ call.lines # << >>
              /\ LET line == call.lines[Len(call.lines)]
                 IN /\ line.event = "speech_pipeline"
                    /\ line.job_id = call.popped.job_id
                    /\ line.subtitle_request_id = ""
                    /\ line.subtitle_wrapped = ""
                    /\ line.subtitle_visible_chars = "0"

\* C31: a TTS failure in the pipeline of a popped job aborts only that job,
\* the state actor stays in its loop for later ticks, events and jobs; a
\* subtitle failure does not abort the job, whose pipeline continues with
\* empty subtitle fields.
C31_TtsFailureAbortsOneJob ==
    [][(HandlerStep({"on_tick"}) /\ actor_call'.popped # NoJob) =>
          /\ actor_call'.outcome = [ok |-> FALSE, error |-> "tts"] =>
                /\ actor_call'.spoke = NoJob
                /\ actor_pc' = "running"
          /\ SubtitleFailureContinues(actor_call')]_vars

\* The subtitle half of C31, and what a TTS failure does instead: the job is
\* gone from the queue, no line is written for it and run returns the Err.
C31_TtsFailureEndsRun ==
    [][(HandlerStep({"on_tick"}) /\ actor_call'.popped # NoJob) =>
          /\ ~actor_call'.outcome.ok =>
                /\ actor_call'.spoke = NoJob
                /\ actor_call'.result = "Err"
                /\ actor_pc' = "failed"
                /\ \A tier \in {"p0", "p1", "p2"} : \A i \in DOMAIN queue'[tier] :
                      queue'[tier][i] # actor_call'.popped
                /\ \A i \in DOMAIN actor_call'.lines :
                      actor_call'.lines[i].job_id # actor_call'.popped.job_id
          /\ SubtitleFailureContinues(actor_call')]_vars

\* A tick popped a job while another was queued, the TTS request failed, and
\* the actor has left its loop with the other job still queued.
C31_Aborted ==
    /\ actor_call.type = "on_tick"
    /\ actor_call.popped # NoJob
    /\ actor_call.outcome = [ok |-> FALSE, error |-> "tts"]
    /\ actor_pc = "failed"
    /\ Len(queue.p0) + Len(queue.p1) + Len(queue.p2) > 0

\* A tick spoke a job although the subtitle gateway failed.
C31_SubtitleFailed ==
    /\ actor_call.type = "on_tick"
    /\ actor_call.result = "Ok"
    /\ actor_call.spoke # NoJob
    /\ actor_call.outcome.subtitle = EmptySubtitle

\* The text without its whitespace characters, from the first character on.
RECURSIVE Squeezed(_)
Squeezed(text) ==
    IF text = << >> THEN << >>
    ELSE IF Head(text) \in {" ", "\t", "\n"} THEN Squeezed(Tail(text))
    ELSE <<Head(text)>> \o Squeezed(Tail(text))

\* The line of the call repeats the most recently accepted line within the
\* cooldown.
Repeats(call) ==
    /\ last_line.some
    /\ last_line.value = Squeezed(call.text)
    /\ call.now_ms - last_line_ms < actor_cfg.duplicate_cooldown_ms

\* C32, on every call of enqueue_speech.
C32_Step ==
    (n_handled' = n_handled + 1 /\ actor_call'.type = "enqueue_speech") =>
        LET call == actor_call'
        IN IF Repeats(call)
           THEN /\ UNCHANGED <<queue, last_line, last_line_ms, n_jobs>>
                /\ call.pushed = << >>
                /\ call.lines = << >>
                /\ call.result = "Ok"
           ELSE /\ n_jobs' = n_jobs + 1
                /\ Len(call.pushed) = 1
                /\ call.pushed[1].text = call.text
                /\ call.pushed[1].priority = call.priority
                /\ call.pushed[1].source = call.source
                /\ LET tier == queue'[QueueOf(call.priority)]
                   IN tier # << >> /\ tier[Len(tier)] = call.pushed[1]
                /\ last_line' = Some(Squeezed(call.text))
                /\ last_line_ms' = call.now_ms

\* C32: enqueue_speech drops a line, changing neither the queue nor last_line
\* and last_line_ms and writing no metric, exactly when the line's normalised
\* text equals the key of the most recently accepted line and less than
\* duplicate_cooldown_ms has passed since that line was accepted, whatever the
\* line's priority or source; otherwise the line is enqueued and becomes the
\* last line.
C32_Dedupe == [][C32_Step]_vars

\* A line was dropped that differs from the accepted one in its whitespace, its
\* priority and its source, while the accepted job is in the queue.
C32_Witness ==
    /\ actor_call.type = "enqueue_speech"
    /\ actor_call.pushed = << >>
    /\ actor_call.text = <<"a", " ", "b">>
    /\ actor_call.priority = "P0Safety"
    /\ actor_call.source = "ActionSafety"
    /\ n_jobs = 1
    /\ Len(queue.p2) = 1
    /\ queue.p2[1].text = <<"a", "b">>
    /\ queue.p2[1].source = "Telemetry"

\* A line was accepted again once the cooldown had passed.
C32_Again ==
    /\ actor_call.type = "enqueue_speech"
    /\ Len(actor_call.pushed) = 1
    /\ Len(queue.p0) = 2
    /\ queue.p0[1].dedupe_key = queue.p0[2].dedupe_key
    /\ queue.p0[2].enqueued_ms = queue.p0[1].enqueued_ms + actor_cfg.duplicate_cooldown_ms
    /\ actor_cfg.duplicate_cooldown_ms > 0

\* The frames C33 is about, received by a session in SessionState state: a
\* Telemetry, ActionAck or ActionRes of a session that is not the primary, and
\* an ActionReq of a game client.
NotForTheHub(state, frame) ==
    /\ frame.kind = "envelope"
    /\ \/ /\ frame.payload.type \in {"Telemetry", "ActionAck", "ActionRes"}
          /\ \/ state.peer_role = "orchestrator"
             \/ state.peer_role = "game_client" /\ ~state.is_primary_game
       \/ /\ frame.payload.type = "ActionReq"
          /\ state.peer_role = "game_client"

\* The step left the hub, the telemetry channel and every channel and call of
\* the other sessions as they were, sent nothing to the peer of s and left s in
\* its loop.
Discarded(s) ==
    /\ UNCHANGED <<hub_vars, telemetry_vars, game_vars, orch_vars, ghost_vars, pc>>
    /\ n_sent'[s] = n_sent[s]
    /\ sent_last'[s] = sent_last[s]
    /\ wpc[s] = "open" /\ wpc'[s] = "open"

\* C33: a Telemetry, ActionAck or ActionRes frame received from a non-primary
\* game client or from an orchestrator never publishes telemetry and never
\* touches pending_actions, and an ActionReq received from a game-client
\* session is never enqueued; the frame is discarded and the session stays
\* open.
C33_OnlyPrimaryChangesHub ==
    [][\A s \in WireSessions, frame \in ObserverFrames, ok \in BOOLEAN :
          (WireRecv(s, frame, ok) /\ NotForTheHub(st[s], frame)) => Discarded(s)]_vars

\* A game client that is not the primary has sent an ActionRes, and before it
\* other frames, for the request that is pending for o1 and has been forwarded
\* to the primary: the entry is there, nothing was put into the reply channel
\* of o1, and the session is open.
C33_Witness ==
    /\ wpc["w1"] = "open"
    /\ st["w1"].peer_role = "game_client"
    /\ ~st["w1"].is_primary_game
    /\ st["w1"].last_peer_seq = 5
    /\ Cardinality(peer_seqs["w1"]) >= 3
    /\ <<"a">> \in DOMAIN pending_actions
    /\ pending_actions[<<"a">>] = "o1"
    /\ reply_hist["o1"] = << >>
    /\ pc["g1"] = "loop" /\ action_chan["g1"] = << >>
    /\ n_telemetry = 0

\* An orchestrator has sent an ActionAck that rejects the request pending for
\* o1, and the entry is there.
C33_Orchestrator ==
    /\ wpc["w1"] = "open"
    /\ st["w1"].peer_role = "orchestrator"
    /\ st["w1"].last_peer_seq = 4
    /\ <<"a">> \in DOMAIN pending_actions
    /\ reply_hist["o1"] = << >>

\* The step of session s sent nothing, left the SessionState of s, the hub and
\* the telemetry channel as they were and did not end the session.
SilentlyIgnored(s) ==
    /\ UNCHANGED <<hub_vars, telemetry_vars, st, sent_last, n_sent, hs_reply, w_slot>>
    /\ wpc'[s] = wpc[s]

\* C34: a ping or text frame received by a bridge session at any point,
\* including as the first frame before the Hello, is silently ignored: no
\* outbound frame, no change of session or hub state, and the session goes
\* on; a close frame ends the session without an Error frame being sent.
C34_NonBinaryIgnored ==
    [][/\ \A s \in WireSessions, msg \in WsMessages, ok \in BOOLEAN :
             (WireFirstMessage(s, msg, ok) /\ msg.kind \in {"ping", "text"})
                => SilentlyIgnored(s)
       /\ \A s \in WireSessions, frame \in LoopFrames, ok \in BOOLEAN :
             (WireRecv(s, frame, ok) /\ frame.kind \in {"ping", "text"})
                => SilentlyIgnored(s)
       /\ \A s \in WireSessions :
             WireRecvClose(s) => (wpc'[s] = "done" /\ UNCHANGED <<sent_last, n_sent>>)]_vars

\* What holds: in the session loop a ping or a text frame is ignored and a
\* close ends the session with nothing sent; as the first message a ping or a
\* text frame is taken for the Hello: a reply is handed to send_envelope, an
\* Error frame when the bytes are empty or no Envelope, and the session ends
\* unless the bytes are a Hello that is accepted.
C34_IgnoredAfterHello ==
    [][/\ \A s \in WireSessions, msg \in WsMessages, ok \in BOOLEAN :
             (WireFirstMessage(s, msg, ok) /\ msg.kind \in {"ping", "text"})
                => /\ hs_reply'[s].type \in {"Error", "HelloAck", "Hello"}
                   /\ wpc'[s] = (IF hs_verdict'[s] = "accepted" /\ ok THEN "open" ELSE "done")
                   /\ msg.data.kind = "undecodable" => hs_reply'[s].type = "Error"
                   /\ msg.data = PeerEnvelope(0, 0, NoFrame) => hs_reply'[s].type = "Error"
       /\ \A s \in WireSessions, frame \in LoopFrames, ok \in BOOLEAN :
             (WireRecv(s, frame, ok) /\ frame.kind \in {"ping", "text"})
                => SilentlyIgnored(s)
       /\ \A s \in WireSessions :
             WireRecvClose(s) => (wpc'[s] = "done" /\ UNCHANGED <<sent_last, n_sent>>)]_vars

\* An empty ping was the first message of w1: the session has ended and the
\* peer got an Error frame for a protocol_version mismatch.
C34_PingEndsSession ==
    /\ wpc["w1"] = "done"
    /\ hello_in["w1"] = PeerEnvelope(0, 0, NoFrame)
    /\ n_sent["w1"] = 1
    /\ sent_last["w1"].payload.type = "Error"
    /\ sent_last["w1"].payload.message = "protocol_version mismatch"

\* A session that is open has been sent pings or text and has sent nothing but
\* its handshake reply.
C34_PingInLoop ==
    /\ wpc["w2"] = "open"
    /\ n_wire >= 2
    /\ peer_seqs["w2"] = {2}
    /\ n_sent["w2"] = 1

\* The handler accepted one line: one job of this priority and source with the
\* deadline now_ms + chat_deadline_ms was pushed and is the newest of its tier.
EnqueuedOne(tier, priority, source, text, now_ms) ==
    /\ Len(actor_call'.pushed) = 1
    /\ LET job == actor_call'.pushed[1]
       IN /\ job.text = text
          /\ job.priority = priority
          /\ job.source = source
          /\ job.deadline_ms = now_ms + actor_cfg.chat_deadline_ms
          /\ Len(queue'[tier]) >= 1
          /\ queue'[tier][Len(queue'[tier])] = job

\* The handler enqueued nothing.
NoSpeech ==
    /\ UNCHANGED <<queue, last_line, last_line_ms, n_jobs>>
    /\ actor_call'.pushed = << >>
    /\ actor_call'.lines = << >>

\* The line repeats the most recently accepted line within the cooldown.
Suppressed(text, now_ms) ==
    /\ last_line.some
    /\ last_line.value = Squeezed(text)
    /\ now_ms - last_line_ms < actor_cfg.duplicate_cooldown_ms

\* The ledger after the step has request_id acked if it was in flight, and is
\* otherwise as before.
OnlyAcked(request_id) ==
    /\ DOMAIN ledger'.inflight = DOMAIN ledger.inflight
    /\ \A r \in DOMAIN ledger.inflight :
          ledger'.inflight[r] = IF r = request_id
                                THEN [ledger.inflight[r] EXCEPT !.acked = TRUE]
                                ELSE ledger.inflight[r]

\* The ledger after the step is the ledger before without request_id.
OnlyRemoved(request_id) ==
    /\ DOMAIN ledger'.inflight = DOMAIN ledger.inflight \ {request_id}
    /\ \A r \in DOMAIN ledger'.inflight : ledger'.inflight[r] = ledger.inflight[r]

\* The event handlers of run, the enqueue of a line being Speech(tier,
\* priority, source, text, now_ms).
EventHandling(Speech(_, _, _, _, _)) ==
    /\ \A now_ms \in ActorMs, metrics_ok \in BOOLEAN :
          ActorTelemetry(now_ms, "20", metrics_ok) =>
             /\ Speech("p2", "P2Commentary", "Telemetry", TelemetryLine("20"), now_ms)
             /\ UNCHANGED ledger
    /\ \A request_id \in ActionIds, accepted \in BOOLEAN, now_ms \in ActorMs, metrics_ok \in BOOLEAN :
          ActorActionAck(request_id, accepted, now_ms, metrics_ok) =>
             IF accepted
             THEN OnlyAcked(request_id) /\ NoSpeech
             ELSE /\ OnlyRemoved(request_id)
                  /\ Speech("p0", "P0Safety", "ActionSafety", RejectedLine(<<"busy">>), now_ms)
    /\ \A request_id \in ActionIds, status \in {"ActionStatusOk", "ActionStatusFailed"},
          now_ms \in ActorMs, metrics_ok \in BOOLEAN :
          ActorActionResult(request_id, status, now_ms, metrics_ok) =>
             /\ OnlyRemoved(request_id)
             /\ IF status = "ActionStatusOk"
                THEN NoSpeech
                ELSE Speech("p0", "P0Safety", "ActionSafety", ResultLine(status), now_ms)
    /\ ActorClosed(TRUE) => actor_pc' = "closed"

\* enqueue_speech was called with the line: the line is enqueued unless it
\* repeats the last accepted line within duplicate_cooldown_ms.
EnqueuedUnlessRepeated(tier, priority, source, text, now_ms) ==
    IF Suppressed(text, now_ms)
    THEN NoSpeech
    ELSE EnqueuedOne(tier, priority, source, text, now_ms)

\* C35: a Telemetry event enqueues one P2 commentary line with deadline now +
\* chat_deadline_ms; a rejecting ActionAck and an ActionResult with a status
\* other than ok each remove the request from the ledger and enqueue one P0
\* line with source action_safety; an accepting ActionAck only marks the entry
\* acked and an ok ActionResult only removes it, neither enqueues speech; a
\* Closed event ends the loop.
C35_EventHandling == [][EventHandling(EnqueuedOne)]_vars

\* C35 as the code has it: each of these handlers calls enqueue_speech once
\* with its line, which enqueues it unless it repeats the last accepted line
\* within duplicate_cooldown_ms.
C35_EventHandlingDeduped == [][EventHandling(EnqueuedUnlessRepeated)]_vars

\* The only action issued was rejected: the ledger is empty and the safety
\* line is the newest of the P0 tier.
C35_Witness ==
    /\ actor_pc = "running"
    /\ n_handled = 2
    /\ n_actions = 1
    /\ actor_call.type = "action_nack"
    /\ DOMAIN ledger.inflight = {}
    /\ Len(actor_call.pushed) = 1
    /\ queue.p0 # << >>
    /\ queue.p0[Len(queue.p0)].source = "ActionSafety"

\* A Telemetry event whose line repeated the line before it was handled and
\* nothing was enqueued.
C35_Repeated ==
    /\ actor_call.type = "telemetry"
    /\ actor_call.pushed = << >>
    /\ actor_call.result = "Ok"
    /\ last_line.some
    /\ last_line.value = Squeezed(TelemetryLine("20"))

\* The binary message is an Envelope of the protocol version with this payload.
MsgCarries(msg, types) ==
    /\ msg.kind = "binary"
    /\ msg.data.kind = "envelope"
    /\ msg.data.protocol_version = ProtocolVersion
    /\ msg.data.payload.type \in types

AcceptingAck(msg) == MsgCarries(msg, {"HelloAck"}) /\ msg.data.payload.accepted

RejectingAck(msg) == MsgCarries(msg, {"HelloAck"}) /\ ~msg.data.payload.accepted

\* connect has returned an Err.
ConnectAborted == bridge'.pc = "failed" /\ bridge'.result \notin {"none", "Ok"}

\* wait_for_handshake goes on waiting.
StillWaiting == bridge'.pc = "wait" /\ bridge'.result = "none"

\* C36: connect completes only when a HelloAck with accepted=true arrives
\* within 5 seconds of the Hello; a HelloAck with accepted=false, an Error
\* frame, the stream closing, or 5 seconds passing without an accepting reply
\* each abort the connection, and non-binary frames or other payloads received
\* meanwhile neither complete nor abort the wait.
C36_HandshakeWait ==
    [][/\ \A msg \in ClientMessages :
             ClientRecv(msg) =>
                /\ bridge'.pc = "connected" => AcceptingAck(msg)
                /\ AcceptingAck(msg) => bridge'.pc = "connected"
                /\ (RejectingAck(msg) \/ MsgCarries(msg, {"Error"}) \/ msg.kind = "end") => ConnectAborted
                /\ (\/ msg.kind \in {"ping", "text", "close"}
                    \/ MsgCarries(msg, {"Hello", "Telemetry", "Heartbeat", "none"})) => StillWaiting
       /\ ClientTimeout => ConnectAborted
       /\ bridge'.pc = "connected" => bridge'.waited_ms <= HandshakeTimeoutMs]_vars

\* C36 as the code has it: a legacy Hello reply completes the connect as an
\* accepting HelloAck does, and a read error, a binary message that does not
\* decode and an envelope of another protocol_version abort it.
C36_HandshakeWaitLegacy ==
    [][/\ \A msg \in ClientMessages :
             ClientRecv(msg) =>
                /\ bridge'.pc = "connected" <=> (AcceptingAck(msg) \/ MsgCarries(msg, {"Hello"}))
                /\ (\/ RejectingAck(msg) \/ MsgCarries(msg, {"Error"})
                    \/ msg.kind \in {"end", "read_error"}
                    \/ msg.kind = "binary" /\ msg.data.kind = "undecodable"
                    \/ msg.kind = "binary" /\ msg.data.kind = "envelope"
                          /\ msg.data.protocol_version # ProtocolVersion) <=> ConnectAborted
                /\ (\/ msg.kind \in {"ping", "text", "close"}
                    \/ MsgCarries(msg, {"Telemetry", "Heartbeat", "none"})) <=> StillWaiting
       /\ ClientTimeout => ConnectAborted
       /\ bridge'.pc = "connected" => bridge'.waited_ms <= HandshakeTimeoutMs
       /\ (bridge.pc = "wait" /\ bridge.waited_ms > HandshakeTimeoutMs) => bridge'.pc # "connected"]_vars

\* connect returned Ok on a HelloAck that came as the third message, after
\* two that were ignored, with time left.
C36_Witness ==
    /\ bridge.pc = "connected"
    /\ bridge.result = "Ok"
    /\ bridge.n_msgs = 3
    /\ bridge.last_peer_seq = 2
    /\ bridge.waited_ms = HandshakeTimeoutMs \div 2
    /\ bridge.sent = ClientHello
    /\ bridge.seq = 1

\* connect returned Err because the timer fired after messages that were
\* ignored.
C36_TimedOut ==
    /\ bridge.pc = "failed"
    /\ bridge.result = "bridge hello handshake timeout"
    /\ bridge.n_msgs = 2

\* C37: the hub never deadlocks its sessions: every enqueue_action call
\* returns (its send is bounded by action_send_timeout_ms), and a primary
\* blocked in a send into a full reply channel gets its send completed, also
\* when the orchestrator owning that channel is itself waiting in
\* enqueue_action on the primary's full action channel.
C37_NoDeadlock ==
    /\ \A o \in OrchSessions : (pc[o] = "enqueue_send") ~> (pc[o] # "enqueue_send")
    /\ \A g \in GameSessions :
          /\ (pc[g] = "route_ack_send") ~> (pc[g] # "route_ack_send")
          /\ (pc[g] = "route_result_send") ~> (pc[g] # "route_result_send")
          /\ (pc[g] = "fail_all_send") ~> (pc[g] = "done")

\* The primary's action channel is full, the primary is blocked forwarding a
\* reply into the full reply channel of o1, and o1 is waiting in
\* enqueue_action.
C37_Witness ==
    /\ is_primary_game["g1"]
    /\ pc["g1"] = "route_result_send"
    /\ route["g1"].reply_tx = "o1"
    /\ reply_rx_alive["o1"]
    /\ Len(reply_chan["o1"]) = action_queue_size
    /\ pc["o1"] = "enqueue_send"
    /\ enq["o1"].primary_sender = "g1"
    /\ action_rx_alive["g1"]
    /\ Len(action_chan["g1"]) = action_queue_size

\* The enqueue has timed out and its nack was sent, the orchestrator has
\* drained its reply channel and the primary's forward has completed: the
\* result is in the reply channel and both sessions are in their loops.
C37_Resolved ==
    /\ pc["g1"] = "loop"
    /\ pc["o1"] = "loop"
    /\ Len(relayed["o1"]) >= 1
    /\ Len(reply_hist["o1"]) = 2
    /\ reply_hist["o1"][2].type = "ActionRes"
    /\ Len(action_chan["g1"]) = action_queue_size
    /\ n_reqs = 2
    /\ pending_actions = EmptyPending

\* The request_id of the enqueue_action call of o.
EnqueuedId(o) == enq[o].req.request_id

\* C38: enqueueing an ActionRequest whose request_id is already pending does
\* not disturb the existing entry: the insert leaves the reply channel
\* registered for it in place, and a failed send of the second enqueue does
\* not remove the entry of the first.
C38_DuplicateLeavesEntry ==
    [][\A o \in OrchSessions :
          /\ (EnqueueInsert(o) /\ EnqueuedId(o) \in DOMAIN pending_actions)
                => /\ EnqueuedId(o) \in DOMAIN pending_actions'
                   /\ pending_actions'[EnqueuedId(o)] = pending_actions[EnqueuedId(o)]
          /\ (/\ EnqueueFailed(o)
              /\ removed_by[EnqueuedId(o)] = {}
              /\ \E first \in OrchSessions \ {o} : n_inserted[first][EnqueuedId(o)] > 0)
                => EnqueuedId(o) \in DOMAIN pending_actions']_vars

\* What the code does: the insert registers the reply channel of the caller
\* under the request_id whatever was there, and a failed send removes
\* whatever is there.
C38_LastInsertWins ==
    [][\A o \in OrchSessions :
          /\ EnqueueInsert(o)
                => /\ EnqueuedId(o) \in DOMAIN pending_actions'
                   /\ pending_actions'[EnqueuedId(o)] = o
          /\ EnqueueFailed(o) => EnqueuedId(o) \notin DOMAIN pending_actions']_vars

\* o1 enqueued request "a" and the primary's peer answered it, but the ack
\* went to o2, which had sent a request with the same id meanwhile: o1 has
\* been sent nothing and nothing is pending any more.
C38_Misrouted ==
    /\ n_inserted["o1"][<<"a">>] = 1
    /\ n_inserted["o2"][<<"a">>] = 1
    /\ reply_hist["o1"] = << >>
    /\ Len(reply_hist["o2"]) = 2
    /\ reply_hist["o2"][1].type = "ActionAck"
    /\ reply_hist["o2"][2].type = "ActionRes"
    /\ pending_actions = EmptyPending
    /\ pc["o1"] = "loop"
    /\ pc["o2"] = "loop"

\* o2's send timed out and its clean-up removed the entry that o1's request,
\* which is on its way to the primary, needs for its replies.
C38_FirstEntryRemoved ==
    /\ n_inserted["o1"][<<"a">>] = 1
    /\ n_inserted["o2"][<<"a">>] = 1
    /\ pc["o2"] = "nack"
    /\ enq["o2"].result = "action enqueue timeout"
    /\ Len(action_chan["g1"]) = 1
    /\ pending_actions = EmptyPending
    /\ removed_by[<<"a">>] = {"enqueue_action"}
    /\ reply_hist["o1"] = << >>

\* The jobs in the queue.
InQueue(q) == JobsOf(q.p0) \cup JobsOf(q.p1) \cup JobsOf(q.p2)

\* The jobs that left the queue during the handler: those that were queued
\* before it or pushed by it and are not queued after it.
LeftQueue == (InQueue(queue) \cup JobsOf(actor_call'.pushed)) \ InQueue(queue')

\* The speech_dropped lines the handler wrote for the job.
DroppedLinesOf(call, job) ==
    {i \in DOMAIN call.lines :
        /\ call.lines[i].event = "speech_dropped"
        /\ call.lines[i].job_id = job.job_id
        /\ call.lines[i].dropped_reason \in {"deadline_expired", "queue_overflow"}}

\* How often the handler accounted for the job: once if it handed it to the
\* pipeline, and once for each speech_dropped line.
Accounts(call, job) ==
    (IF call.popped = job THEN 1 ELSE 0) + Cardinality(DroppedLinesOf(call, job))

C39_Unreported ==
    /\ actor_call.type = "on_tick"
    /\ actor_call.result = "Err"
    /\ actor_call.lines = << >>
    /\ actor_call.pushed = << >>
    /\ actor_call.popped = NoJob
    /\ n_jobs = 1
    /\ InQueue(queue) = {}
    /\ actor_pc = "failed"

\* The job_ids a safety job can have: the bridge events enqueue the jobs up
\* to the MaxSpeech-th.
SafetyJobIds == 1..MaxSpeech

\* The safety job with this job_id is in the P0 tier.
SafetyQueued(id) == \E i \in DOMAIN queue.p0 : queue.p0[i].job_id = id

\* The last handler was a tick that ran the job through the pipeline.
RunByTick(id) ==
    /\ actor_call.type = "on_tick"
    /\ actor_call.spoke.job_id = id
    /\ actor_call.outcome.ok

\* The last handler reported the job as pushed out of its tier.
EvictedByOverflow(id) ==
    /\ actor_call.type \notin {"none", "closed"}
    /\ \E i \in DOMAIN actor_call.lines :
       /\ actor_call.lines[i].event = "speech_dropped"
       /\ actor_call.lines[i].dropped_reason = "queue_overflow"
       /\ actor_call.lines[i].job_id = id

\* A tick runs at most the one job it popped, and a job of P1 or P2 only
\* when no safety job was queued before it nor enqueued by it.
SafetyFirst ==
    (actor_call'.type = "on_tick" /\ actor_call'.popped # NoJob) =>
        /\ actor_call'.spoke \in {NoJob, actor_call'.popped}
        /\ actor_call'.popped \notin InQueue(queue')
        /\ Cardinality(InQueue(queue) \cup JobsOf(actor_call'.pushed))
              - Cardinality(InQueue(queue'))
              = 1 + Cardinality({i \in DOMAIN actor_call'.lines :
                                   actor_call'.lines[i].event = "speech_dropped"})
        /\ actor_call'.popped.priority # "P0Safety" =>
              /\ queue.p0 = << >>
              /\ queue'.p0 = << >>
              /\ \A i \in DOMAIN actor_call'.pushed :
                    actor_call'.pushed[i].priority # "P0Safety"

\* C40: if ticks keep occurring and every pipeline run succeeds, every P0
\* safety job accepted into the queue is eventually popped and run through
\* the pipeline unless it is evicted by overflow of the P0 tier; a tick runs
\* at most one job, and no P1 or P2 job when a P0 job is queued.
C40_SafetyEventuallySpoken ==
    /\ \A id \in SafetyJobIds :
          SafetyQueued(id) ~> (RunByTick(id) \/ EvictedByOverflow(id) \/ actor_pc # "running")
    /\ [][SafetyFirst]_vars

\* Two safety lines were queued behind each other and a commentary line
\* beside them; two ticks have run the first and then the second, and the
\* commentary line is still waiting.
C40_Witness ==
    /\ actor_pc = "running"
    /\ actor_call.type = "on_tick"
    /\ actor_call.spoke.job_id = 2
    /\ actor_call.spoke.priority = "P0Safety"
    /\ actor_call.outcome.ok
    /\ queue.p0 = << >>
    /\ queue.p2 # << >>
    /\ queue.p2[1].job_id = 3
    /\ n_handled = 3

====
